---------------------------- MODULE Spec2Model ----------------------------
(***************************************************************************)
(* A model of the PlanktoScope device backend's acquisition core:          *)
(*   - MQTTPump, the RPC stub of the imager for the pump (imagernew),      *)
(*     together with the pump process that answers it (pump.py);           *)
(*   - ImagerProcess and its image-acquisition routine thread;             *)
(*   - SettingsValues and the PiCamera settings setter (hardware.py);      *)
(*   - the Latest / PreviewStream single-slot frame channel (streams.py).  *)
(* Each subsystem has its own specification over the shared variables.     *)
(***************************************************************************)
EXTENDS Integers, Sequences, FiniteSets, TLC

\* ------------------------------------------------------------------ bounds
\* Threads that call MQTTPump.run_discrete.
NumCallers == 2
\* run_discrete calls made in one behaviour (also the largest call id).
MaxMoves == 2
\* MQTTPump.stop calls made in one behaviour.
MaxStops == 1

\* Commands sent to the imager in one behaviour.
MaxCommands == 4
\* Commands received by the imager and not yet read.
MaxPending == 1
\* Largest nb_frame of an image command.
MaxImages == 1

\* Fields present in one settings update.
MaxPresent == 2
\* Threads serving the preview stream, and frames the encoder writes.
NumConsumers == 2
MaxWrites == 2

Callers == 1..NumCallers
Consumers == 1..NumConsumers
CallIds == 1..MaxMoves

VARIABLES
    \* --- MQTTPump (imagernew/__init__.py)
    discrete_run,   \* _discrete_run: TRUE when the single-flight lock is held
    done,           \* _done: the flag of the threading.Event
    subscribed,     \* whether the stub's MQTT client is subscribed to status/pump
    inbox,          \* status/pump messages received by the stub's client, oldest first
    rpc,            \* position of the receiver thread in _receive_messages
    pc,             \* position of each caller thread
    call,           \* id of the run_discrete call each caller thread is in (0: none)
    spc,            \* position of the thread calling MQTTPump.stop
    \* --- PumpProcess (pump.py)
    actuator,       \* actuator/pump commands not yet treated by the pump process
    pump_started,   \* PumpProcess.pump_started
    stepper,        \* Stepper: [at_goal, motion]; motion is the call id of the last go()
    \* --- bookkeeping of the calls (not program state)
    ncalls,         \* run_discrete calls that acquired the lock so far
    nstops,         \* stop() calls made so far
    cleared,        \* call ids whose done.clear() ran
    fired,          \* call ids whose done signal fired (done.set() after their clear)
    published,      \* call ids whose move command was published
    moves,          \* per caller thread: move commands it published
    answered,       \* call ids for whose motion a Done/Interrupted status was handled
    \* --- ImagerProcess (imagernew/__init__.py)
    mpc,            \* position of the main thread in ImagerProcess.run
    mret,           \* what the main thread resumes after ImageAcquisitionRoutine.stop()
    routine,        \* self._routine: the routine thread's id, 0 for None
    metadata,       \* self._metadata
    dirs,           \* acquisition directories that exist under /home/pi/data/img
    cmdq,           \* imager/# commands received and not yet read, oldest first
    nsent,          \* commands sent to the imager so far
    reported,       \* the main thread published a status in this turn of its loop
    imager_status,  \* the last status published on status/imager
    nroutines,      \* routine threads created so far
    settings,       \* per routine thread: the stopflow.Settings it runs with
    output_path,    \* per routine thread: its output directory
    interrupted,    \* per routine thread: stopflow.Routine's interrupted flag
    captured,       \* per routine thread: images captured so far
    indices,        \* per routine thread: the indices of its captures, in order
    ended,          \* per routine thread: how its run ended ("" until it ends)
    \* --- PiCamera (camera/hardware.py)
    cam_open,       \* self._camera is not None
    cached,         \* self._cached_settings
    upd,            \* the updates handed to the settings setter, while it runs
    setting,        \* TRUE while a call of the settings setter is under way
    result,         \* how the last call of the setter ended
    driver_calls,   \* the calls the last call of the setter made on picamera2
    camera_options, \* self._camera.options
    \* --- SettingsValues.overlay on arbitrary operands
    ov_self,        \* the value overlay is called on
    ov_updates,     \* its argument
    ov_result,      \* what it returned
    ov_done,        \* whether it was called
    \* --- the preview stream (streams.Latest, hardware.PreviewStream)
    impl,           \* which of the two classes the stream is
    latest_value,   \* self._latest_value / self._latest_buffer: 0 for None, else
                    \* the number of the write that stored it
    wlocked,        \* the write lock of the value is held
    readers,        \* the consumers holding the read lock of the value
    available,      \* who holds the lock of self._available
    wpc,            \* where the writer thread is in write()
    wvalue,         \* write()'s argument
    nwrites,        \* calls of write() so far
    completed,      \* calls of write() that have returned
    cpc,            \* per consumer: where it is in the loop of do_GET
    got,            \* per consumer: what its last get() returned
    prev,           \* per consumer: the frame it sent last
    gstart,         \* per consumer: the writes completed when its get() began,
                    \* until the frame is sent
    notified,       \* per consumer: write() has notified since it began waiting
    \* --- ImagerProcess of the adafruithat tree (imagernew/__init__.py)
    lpc,            \* where its loop is: "treat" (treat_message) or "machine"
    imager_state,   \* self.__imager.state.name
    img_goal,       \* self.__img_goal
    img_done,       \* self.__img_done
    img_error,      \* self.__error
    global_metadata,\* self.__global_metadata
    export_dirs,    \* export directories that exist
    msgq,           \* messages received and not yet treated, oldest first
    pump_sub,       \* whether the client is subscribed to status/pump
    lpump,          \* the pump process: "idle" or "moving"
    lstatus,        \* the last status published on status/imager
    lmoves,         \* move commands published since the last image command
    lsent,          \* commands sent to this imager so far
    failures,       \* captures that failed in a row since the last image command
    recovered,      \* an image was saved at the second try since the last image command
    lcamera,        \* the settings the camera was last given
    \* --- MQTTCamera (pscopehat imagernew/__init__.py)
    camq,           \* settings commands received by its client and not yet read
    controls,       \* self.camera.controls.exposure_time
    \* --- MQTTPump.close (pscopehat imagernew/__init__.py)
    mqtt,           \* self._mqtt is not None
    receiver_close, \* self._mqtt_receiver_close (threading.Event)
    kpc,            \* where the thread that calls close() is
    \* --- SettingsValues.validate on arbitrary values (hardware.py)
    val_self,       \* the SettingsValues validate() is called on
    val_errors,     \* the list validate() returned
    val_done,       \* validate() has returned
    \* --- camera.mqtt.Worker (adafruithat camera/mqtt.py)
    w_thread,       \* the receiver thread: unstarted, running, dead; failed: open() raised
    w_msg,          \* the message the MQTT client holds until read_message()
    w_status,       \* the status published on status/imager for the last message
    w_handled,      \* the number of messages _receive_message was called on
    \* --- MQTTPump._receive_messages: when the status in hand was read
    took_free,      \* the single-flight lock was free when the receiver read the
                    \* Done or Interrupted status it is handling
    \* --- ImagerProcess.__state_capture (adafruithat imagernew/__init__.py)
    lcause,         \* the exception the last turn in state capture ended with, or ""
    \* --- ImagerProcess.run, startup and shutdown (pscopehat imagernew/__init__.py)
    stop_event,     \* self._stop_event_loop is set
    cam_rcv         \* where the receiver thread of MQTTCamera is

pumpVars == <<discrete_run, done, subscribed, inbox, rpc, pc, call, spc,
              actuator, pump_started, stepper,
              ncalls, nstops, cleared, fired, published, moves, answered>>

imgVars == <<mpc, mret, routine, metadata, dirs, cmdq, nsent, reported, imager_status,
             nroutines,
             settings, output_path, interrupted, captured, indices, ended>>

camVars == <<cam_open, cached, upd, setting, result, driver_calls,
             camera_options>>

ovVars == <<ov_self, ov_updates, ov_result, ov_done>>

chanVars == <<impl, latest_value, wlocked, readers, available, wpc, wvalue, nwrites,
              completed, cpc, got, prev, gstart, notified>>

legVars == <<lpc, imager_state, img_goal, img_done, img_error, global_metadata,
             export_dirs, msgq, pump_sub, lpump, lstatus, lmoves, lsent, failures, recovered,
             lcamera>>

mqttCamVars == <<camq, controls>>

closeVars == <<mqtt, receiver_close, kpc>>

valVars == <<val_self, val_errors, val_done>>

workerVars == <<w_thread, w_msg, w_status, w_handled>>

rcvVars == <<took_free>>

capVars == <<lcause>>

runVars == <<stop_event, cam_rcv>>

notPump == <<imgVars, camVars, ovVars, chanVars, legVars, mqttCamVars, closeVars,
    valVars, workerVars, rcvVars, capVars, runVars>>
notImager == <<camVars, ovVars, chanVars, legVars, mqttCamVars, closeVars,
    valVars, workerVars, rcvVars, capVars, runVars>>
notCamera == <<pumpVars, imgVars, ovVars, chanVars, legVars, mqttCamVars, closeVars,
    valVars, workerVars, rcvVars, capVars, runVars>>
notOverlay == <<pumpVars, imgVars, camVars, chanVars, legVars, mqttCamVars, closeVars,
    valVars, workerVars, rcvVars, capVars, runVars>>
notChannel == <<pumpVars, imgVars, camVars, ovVars, legVars, mqttCamVars, closeVars,
    valVars, workerVars, rcvVars, capVars, runVars>>
notLegacy == <<pumpVars, imgVars, camVars, ovVars, chanVars, mqttCamVars, closeVars,
    valVars, workerVars, rcvVars, capVars, runVars>>
notMqttCamera == <<pumpVars, camVars, ovVars, chanVars, legVars, closeVars,
    valVars, workerVars, rcvVars, capVars, runVars>>
notClose == <<imgVars, camVars, ovVars, chanVars, legVars, mqttCamVars, valVars, workerVars, rcvVars, capVars, runVars>>
notValidate == <<pumpVars, imgVars, camVars, ovVars, chanVars, legVars, mqttCamVars,
    closeVars, workerVars, rcvVars, capVars, runVars>>
notWorker == <<pumpVars, imgVars, ovVars, chanVars, legVars, mqttCamVars, closeVars,
    valVars, rcvVars, capVars, runVars>>
\* what the receiver's handling of a Done or Interrupted status leaves alone
notPumpRcv == <<imgVars, camVars, ovVars, chanVars, legVars, mqttCamVars, closeVars,
    valVars, workerVars, capVars, runVars>>
\* what a turn of the legacy machine in state capture leaves alone
notLegacyCapture == <<pumpVars, imgVars, camVars, ovVars, chanVars, mqttCamVars, closeVars,
    valVars, workerVars, rcvVars, runVars>>
\* what the startup and the shutdown of the imager process leave alone
notRun == <<camVars, ovVars, chanVars, legVars, mqttCamVars, valVars, workerVars, rcvVars,
    capVars>>

vars == <<pumpVars, imgVars, camVars, ovVars, chanVars, legVars, mqttCamVars,
          closeVars, valVars, workerVars, rcvVars, capVars, runVars>>

None == "None"

\* ---------------------------------------------------------------- helpers
\* a receiver that takes "Started" for the end of a motion as well
TerminalOrStarted == {"Done", "Interrupted", "Started"}
Terminal == {"Done", "Interrupted"}

\* A status/pump message; "of" tells which call's motion produced it (0: none).
Status(s, m) == [status |-> s, of |-> m]

\* mqtt.MQTT_Client of the stub: a message published on status/pump reaches the
\* client's inbox when the client is subscribed to the topic.
Deliver(box, msgs) == IF subscribed THEN box \o msgs ELSE box

\* threading.Lock.acquire(): possible when the lock is free.
CanAcquireBroken(locked) == TRUE
CanAcquire(locked) == ~locked

\* an Event whose set() wakes no waiter
WakeNone(p) == p

\* threading.Event.set(): the flag is set and every waiter is woken.
WakeAll(p) == [t \in DOMAIN p |-> IF p[t] = "rd_blocked" THEN "rd_ret" ELSE p[t]]

\* while not self._mqtt_receiver_close.is_set(): where the receiver is after the
\* test at the top of its loop
LoopTop == IF receiver_close THEN "r_dead" ELSE "r_poll"

\* ------------------------------------------------- MQTTPump.run_discrete
\* self._discrete_run.acquire()
RunDiscreteAcquire(t) ==
    /\ pc[t] = "rd_acquire"
    /\ CanAcquire(discrete_run)
    /\ discrete_run' = TRUE
    /\ ncalls' = ncalls + 1
    /\ call' = [call EXCEPT ![t] = ncalls + 1]
    /\ pc' = [pc EXCEPT ![t] = "rd_clear"]
    /\ UNCHANGED <<done, subscribed, inbox, rpc, spc, actuator, pump_started, stepper,
                   nstops, cleared, fired, published, moves, answered>>
    /\ UNCHANGED notPump

\* self._done.clear()
RunDiscreteClear(t) ==
    /\ pc[t] = "rd_clear"
    /\ done' = FALSE
    /\ cleared' = cleared \cup {call[t]}
    /\ pc' = [pc EXCEPT ![t] = "rd_subscribe"]
    /\ UNCHANGED <<discrete_run, subscribed, inbox, rpc, call, spc, actuator, pump_started,
                   stepper, ncalls, nstops, fired, published, moves, answered>>
    /\ UNCHANGED notPump

\* self._mqtt.client.subscribe("status/pump")
RunDiscreteSubscribe(t) ==
    /\ pc[t] = "rd_subscribe"
    /\ mqtt
    /\ subscribed' = TRUE
    /\ pc' = [pc EXCEPT ![t] = "rd_publish"]
    /\ UNCHANGED <<discrete_run, done, inbox, rpc, call, spc, actuator, pump_started,
                   stepper, ncalls, nstops, cleared, fired, published, moves, answered>>
    /\ UNCHANGED notPump

\* self._mqtt.client.publish("actuator/pump", {"action": "move", ...})
RunDiscretePublish(t) ==
    /\ pc[t] = "rd_publish"
    /\ mqtt
    /\ actuator' = Append(actuator, [action |-> "move", id |-> call[t]])
    /\ published' = published \cup {call[t]}
    /\ moves' = [moves EXCEPT ![t] = moves[t] + 1]
    /\ pc' = [pc EXCEPT ![t] = "rd_wait"]
    /\ UNCHANGED <<discrete_run, done, subscribed, inbox, rpc, call, spc, pump_started,
                   stepper, ncalls, nstops, cleared, fired, answered>>
    /\ UNCHANGED notPump

\* self._done.wait(): returns at once when the flag is set, else blocks until set()
RunDiscreteWait(t) ==
    /\ pc[t] = "rd_wait"
    /\ pc' = [pc EXCEPT ![t] = IF done THEN "rd_ret" ELSE "rd_blocked"]
    /\ UNCHANGED <<discrete_run, done, subscribed, inbox, rpc, call, spc, actuator,
                   pump_started, stepper, ncalls, nstops, cleared, fired, published, moves,
                   answered>>
    /\ UNCHANGED notPump

\* --------------------------------------------- MQTTPump._receive_messages
\* a status that is neither Done nor Interrupted: read_message() and continue
ReceiverIgnore ==
    /\ rpc = "r_poll"
    /\ inbox # <<>>
    /\ Head(inbox).status \notin Terminal
    /\ inbox' = Tail(inbox)
    /\ rpc' = LoopTop
    /\ UNCHANGED <<discrete_run, done, subscribed, pc, call, spc, actuator,
                   pump_started, stepper, ncalls, nstops, cleared, fired, published, moves,
                   answered>>
    /\ UNCHANGED notPump

\* Done or Interrupted: self._mqtt.client.unsubscribe("status/pump")
ReceiverUnsubscribe ==
    /\ rpc = "r_poll"
    /\ inbox # <<>>
    /\ Head(inbox).status \in Terminal
    /\ subscribed' = FALSE
    /\ rpc' = "r_read"
    /\ UNCHANGED <<discrete_run, done, inbox, pc, call, spc, actuator, pump_started,
                   stepper, ncalls, nstops, cleared, fired, published, moves, answered>>
    /\ took_free' = ~discrete_run
    /\ UNCHANGED notPumpRcv

\* self._mqtt.read_message(); self._done.set()
ReceiverSetDone ==
    /\ rpc = "r_read"
    /\ inbox' = Tail(inbox)
    /\ done' = TRUE
    /\ pc' = WakeAll(pc)
    /\ fired' = fired \cup cleared
    /\ answered' = answered \cup ({Head(inbox).of} \ {0})
    /\ rpc' = "r_locked"
    /\ UNCHANGED <<discrete_run, subscribed, call, spc, actuator, pump_started, stepper,
                   ncalls, nstops, cleared, published, moves>>
    /\ UNCHANGED notPump

\* if self._discrete_run.locked():
ReceiverCheckLocked ==
    /\ rpc = "r_locked"
    /\ rpc' = IF discrete_run THEN "r_release" ELSE LoopTop
    /\ UNCHANGED <<discrete_run, done, subscribed, inbox, pc, call, spc, actuator,
                   pump_started, stepper, ncalls, nstops, cleared, fired, published, moves,
                   answered>>
    /\ took_free' = (discrete_run /\ took_free)
    /\ UNCHANGED notPumpRcv

\* self._discrete_run.release(); releasing a free lock raises RuntimeError,
\* which ends the receiver thread
ReceiverRelease ==
    /\ rpc = "r_release"
    /\ discrete_run' = FALSE
    /\ rpc' = IF discrete_run THEN LoopTop ELSE "r_error"
    /\ UNCHANGED <<done, subscribed, inbox, pc, call, spc, actuator, pump_started,
                   stepper, ncalls, nstops, cleared, fired, published, moves, answered>>
    /\ took_free' = FALSE
    /\ UNCHANGED notPumpRcv

\* ------------------------------------------------------- MQTTPump.stop
\* self._mqtt.client.subscribe("status/pump")
StopSubscribe ==
    /\ spc = "st_subscribe"
    /\ subscribed' = TRUE
    /\ spc' = "st_publish"
    /\ UNCHANGED <<discrete_run, done, inbox, rpc, pc, call, actuator, pump_started,
                   stepper, ncalls, nstops, cleared, fired, published, moves, answered>>
    /\ UNCHANGED notPump

\* a stop() that takes the lock of run_discrete before it publishes
StopPublishLocked ==
    /\ spc = "st_publish"
    /\ CanAcquire(discrete_run)
    /\ actuator' = Append(actuator, [action |-> "stop", id |-> 0])
    /\ spc' = "st_ret"
    /\ UNCHANGED <<discrete_run, done, subscribed, inbox, rpc, pc, call, pump_started,
                   stepper, ncalls, nstops, cleared, fired, published, moves, answered>>
    /\ UNCHANGED notPump

\* self._mqtt.client.publish("actuator/pump", '{"action": "stop"}')
StopPublish ==
    /\ spc = "st_publish"
    /\ actuator' = Append(actuator, [action |-> "stop", id |-> 0])
    /\ spc' = "st_ret"
    /\ UNCHANGED <<discrete_run, done, subscribed, inbox, rpc, pc, call, pump_started,
                   stepper, ncalls, nstops, cleared, fired, published, moves, answered>>
    /\ UNCHANGED notPump

\* ------------------------------------------------------ MQTTPump.close
\* self._mqtt.client.subscribe / publish once close() has set self._mqtt to
\* None: AttributeError, the thread leaves run_discrete and the lock stays as
\* it is
RunDiscreteRaise(t) ==
    /\ pc[t] \in {"rd_subscribe", "rd_publish"}
    /\ ~mqtt
    /\ pc' = [pc EXCEPT ![t] = "idle"]
    /\ call' = [call EXCEPT ![t] = 0]
    /\ UNCHANGED <<discrete_run, done, subscribed, inbox, rpc, spc, actuator,
                   pump_started, stepper, ncalls, nstops, cleared, fired, published, moves,
                   answered>>
    /\ UNCHANGED closeVars
    /\ UNCHANGED notClose

\* the receiver finds self._mqtt_receiver_close set at the top of its loop
ReceiverExit ==
    /\ rpc = "r_poll"
    /\ receiver_close
    /\ rpc' = "r_dead"
    /\ UNCHANGED <<discrete_run, done, subscribed, inbox, pc, call, spc, actuator,
                   pump_started, stepper, ncalls, nstops, cleared, fired, published, moves,
                   answered>>
    /\ UNCHANGED closeVars
    /\ UNCHANGED notClose

\* the thread has ended, by leaving its loop or by an exception
ReceiverEnded == rpc \in {"r_dead", "r_error"}

\* if self._mqtt is None: return; self._mqtt_receiver_close.set()
CloseSet ==
    /\ kpc = "idle"
    /\ mqtt
    /\ receiver_close' = TRUE
    /\ kpc' = "k_join"
    /\ UNCHANGED mqtt
    /\ UNCHANGED pumpVars
    /\ UNCHANGED notClose

\* self._mqtt_receiver_thread.join()
CloseJoin ==
    /\ kpc = "k_join"
    /\ ReceiverEnded
    /\ kpc' = "k_shutdown"
    /\ UNCHANGED <<mqtt, receiver_close>>
    /\ UNCHANGED pumpVars
    /\ UNCHANGED notClose

\* self._mqtt.shutdown(); self._mqtt = None
CloseShutdown ==
    /\ kpc = "k_shutdown"
    /\ mqtt' = FALSE
    /\ kpc' = "k_locked"
    /\ UNCHANGED receiver_close
    /\ UNCHANGED pumpVars
    /\ UNCHANGED notClose

\* if not self._discrete_run.locked(): return
CloseCheckLocked ==
    /\ kpc = "k_locked"
    /\ kpc' = IF discrete_run THEN "k_release" ELSE "closed"
    /\ UNCHANGED <<mqtt, receiver_close>>
    /\ UNCHANGED pumpVars
    /\ UNCHANGED notClose

\* self._discrete_run.release(); releasing a free lock raises RuntimeError
CloseRelease ==
    /\ kpc = "k_release"
    /\ discrete_run' = FALSE
    /\ kpc' = IF discrete_run THEN "closed" ELSE "k_error"
    /\ UNCHANGED <<mqtt, receiver_close>>
    /\ UNCHANGED <<done, subscribed, inbox, rpc, pc, call, spc, actuator, pump_started,
                   stepper, ncalls, nstops, cleared, fired, published, moves, answered>>
    /\ UNCHANGED notClose

\* ------------------------------------------------------------ PumpProcess
\* Stepper.shutdown(): the goal becomes the current position
Shutdown(s) == [s EXCEPT !.at_goal = TRUE]

\* Stepper.go(): a new goal away from the current position
Go(s, m) == [at_goal |-> FALSE, motion |-> m]

\* The statuses published by the goal check of PumpProcess.run, given the
\* state that treat_command left
GoalCheck(started, s) ==
    IF started /\ s.at_goal THEN <<Status("Done", s.motion)>> ELSE <<>>

\* One iteration of the loop of PumpProcess.run with a command pending:
\* treat_command() (stop: _handle_stop_action; move: _handle_move_action and
\* pump), then the goal check.
PumpTreatCommand ==
    /\ actuator # <<>>
    /\ LET cmd == Head(actuator)
           isStop == cmd.action = "stop"
           s1 == IF isStop THEN Shutdown(stepper) ELSE Go(stepper, cmd.id)
           started1 == IF isStop THEN pump_started ELSE TRUE
           first == IF isStop
                    THEN <<Status("Interrupted", IF pump_started THEN stepper.motion ELSE 0)>>
                    ELSE <<Status("Started", cmd.id)>>
           out == first \o GoalCheck(started1, s1)
       IN /\ stepper' = s1
          /\ pump_started' = (started1 /\ ~s1.at_goal)
          /\ inbox' = Deliver(inbox, out)
    /\ actuator' = Tail(actuator)
    /\ UNCHANGED <<discrete_run, done, subscribed, rpc, pc, call, spc, ncalls, nstops,
                   cleared, fired, published, moves, answered>>
    /\ UNCHANGED notPump

\* One iteration of the loop of PumpProcess.run with no command pending and
\* the stepper at its goal: "Done" is published and pump_started reset.
PumpDone ==
    /\ actuator = <<>>
    /\ GoalCheck(pump_started, stepper) # <<>>
    /\ inbox' = Deliver(inbox, GoalCheck(pump_started, stepper))
    /\ pump_started' = FALSE
    /\ UNCHANGED <<discrete_run, done, subscribed, rpc, pc, call, spc, actuator, stepper,
                   ncalls, nstops, cleared, fired, published, moves, answered>>
    /\ UNCHANGED notPump

\* The motor reaches the goal of the motion commanded by go().
StepperArrives ==
    /\ ~stepper.at_goal
    /\ stepper' = [stepper EXCEPT !.at_goal = TRUE]
    /\ UNCHANGED <<discrete_run, done, subscribed, inbox, rpc, pc, call, spc, actuator,
                   pump_started, ncalls, nstops, cleared, fired, published, moves, answered>>
    /\ UNCHANGED notPump

\* ------------------------------------------- callers of the stub (threads)
\* A thread calls run_discrete: if self._mqtt is None it raises RuntimeError
\* before anything else.
CallRunDiscrete(t) ==
    /\ pc[t] = "idle"
    /\ mqtt
    /\ ncalls + Cardinality({u \in Callers : pc[u] = "rd_acquire"}) < MaxMoves
    /\ pc' = [pc EXCEPT ![t] = "rd_acquire"]
    /\ UNCHANGED <<discrete_run, done, subscribed, inbox, rpc, call, spc, actuator,
                   pump_started, stepper, ncalls, nstops, cleared, fired, published, moves,
                   answered>>
    /\ UNCHANGED notPump

\* run_discrete returns to its caller.
ReturnRunDiscrete(t) ==
    /\ pc[t] = "rd_ret"
    /\ pc' = [pc EXCEPT ![t] = "idle"]
    /\ call' = [call EXCEPT ![t] = 0]
    /\ UNCHANGED <<discrete_run, done, subscribed, inbox, rpc, spc, actuator,
                   pump_started, stepper, ncalls, nstops, cleared, fired, published, moves,
                   answered>>
    /\ UNCHANGED notPump

\* A thread calls stop().
CallStop ==
    /\ spc = "idle"
    /\ nstops < MaxStops
    /\ nstops' = nstops + 1
    /\ spc' = "st_subscribe"
    /\ UNCHANGED <<discrete_run, done, subscribed, inbox, rpc, pc, call, actuator,
                   pump_started, stepper, ncalls, cleared, fired, published, moves, answered>>
    /\ UNCHANGED notPump

\* stop() returns to its caller.
ReturnStop ==
    /\ spc = "st_ret"
    /\ spc' = "idle"
    /\ UNCHANGED <<discrete_run, done, subscribed, inbox, rpc, pc, call, actuator,
                   pump_started, stepper, ncalls, nstops, cleared, fired, published, moves,
                   answered>>
    /\ UNCHANGED notPump

\* ============================================================ ImagerProcess
\* The texts an nb_frame field may carry, and int() of them ("x" does not parse).
NumberTexts == <<"0", "1", "2", "3", "4", "5">>
Parsable(txt) == \E i \in DOMAIN NumberTexts : NumberTexts[i] = txt
ParseInt(txt) == (CHOOSE i \in DOMAIN NumberTexts : NumberTexts[i] = txt) - 1

RequiredFields == {"nb_frame", "sleep", "volume", "pump_direction"}
PumpDirection == {"FORWARD", "BACKWARD"}

\* a JSON null as the value of nb_frame
Null == "null"

\* _parse_acquisition_settings: None (ok = FALSE) when a field is missing, the
\* direction is no member of PumpDirection or a number does not parse
\* (ValueError); int(None) raises TypeError, which is not caught (raised).
NoSettings == [ok |-> FALSE, total_images |-> 0, direction |-> None, raised |-> FALSE]
ParseAcquisitionSettings(msg) ==
    IF ~(RequiredFields \subseteq msg.has) THEN NoSettings
    ELSE IF msg.pump_direction \notin PumpDirection THEN NoSettings
    ELSE IF msg.nb_frame = Null THEN [NoSettings EXCEPT !.raised = TRUE]
    ELSE IF ~Parsable(msg.nb_frame) THEN NoSettings
    ELSE [ok |-> TRUE, total_images |-> ParseInt(msg.nb_frame),
          direction |-> msg.pump_direction, raised |-> FALSE]

\* os.path.exists(acq_dir_path)
DirExistsNever(path, ds) == FALSE
DirExists(path, ds) == path \in ds

\* _initialize_acquisition_directory: the outcome for the given metadata.
\*   "ValueError": object_date is missing, or the directory already exists;
\*   "KeyError":   sample_id or acq_id is missing (metadata[...] raises);
\*   otherwise the path of the directory, which is then created.
AcqDirPath(md) == <<md.object_date, md.sample_id, md.acq_id>>
InitializeAcquisitionDirectory(md, ds) ==
    IF md.object_date = None THEN "ValueError"
    ELSE IF md.sample_id = None \/ md.acq_id = None THEN "KeyError"
    ELSE IF DirExists(AcqDirPath(md), ds) THEN "ValueError"
    ELSE "created"

\* threading.Thread.is_alive()
IsAlive(t) == pc[t] \notin {"unstarted", "dead"}

\* self._mqtt.read_message()
ReadMessage(q) == Tail(q)

imgThreadVars == <<settings, output_path, interrupted, captured, indices, ended>>

\* ------------------------------------------------ ImagerProcess.run (loop)
\* Top of the loop (while not self._stop_event_loop.is_set()): a finished
\* routine is garbage-collected with
\* self._routine.stop(), which sets the interrupted flag and calls pump.stop().
MainCheckRoutine ==
    /\ mpc = "m_loop"
    /\ ~stop_event
    /\ IF routine # 0 /\ ~IsAlive(routine)
       THEN /\ interrupted' = [interrupted EXCEPT ![routine] = TRUE]
            /\ spc' = "st_subscribe"
            /\ mpc' = "m_stop"
            /\ mret' = "gc"
       ELSE /\ mpc' = "m_msg"
            /\ UNCHANGED <<interrupted, spc, mret>>
    /\ reported' = FALSE
    /\ UNCHANGED <<routine, metadata, dirs, cmdq, nsent, imager_status, nroutines,
                   settings, output_path, captured, indices, ended>>
    /\ UNCHANGED <<discrete_run, done, subscribed, inbox, rpc, pc, call, actuator,
                   pump_started, stepper, ncalls, nstops, cleared, fired, published, moves,
                   answered>>
    /\ UNCHANGED notImager

\* if not self._mqtt.new_message_received(): time.sleep(0.1); continue
MainNoMessage ==
    /\ mpc = "m_msg"
    /\ cmdq = <<>>
    /\ mpc' = "m_loop"
    /\ UNCHANGED <<mret, routine, metadata, dirs, cmdq, nsent, reported, imager_status, nroutines,
                   imgThreadVars>>
    /\ UNCHANGED pumpVars
    /\ UNCHANGED notImager

\* if self._routine is not None and self._routine.is_alive()
NeverBusy(r) == FALSE
Busy(r) == r # 0 /\ IsAlive(r)

\* _handle_new_message, action "update_config": _update_metadata
MainUpdateConfig ==
    /\ mpc = "m_msg"
    /\ cmdq # <<>>
    /\ Head(cmdq).action = "update_config"
    /\ IF Busy(routine)
       THEN /\ imager_status' = "Busy"
            /\ UNCHANGED metadata
       ELSE IF ~Head(cmdq).has_config
       THEN /\ imager_status' = "Configuration message error"
            /\ UNCHANGED metadata
       ELSE /\ metadata' = Head(cmdq).config
            /\ imager_status' = "Config updated"
    /\ reported' = TRUE
    /\ cmdq' = ReadMessage(cmdq)
    /\ mpc' = "m_loop"
    /\ UNCHANGED <<mret, routine, dirs, nsent, nroutines, imgThreadVars>>
    /\ UNCHANGED pumpVars
    /\ UNCHANGED notImager

\* _handle_new_message, action "image": _start_acquisition.
\* When _initialize_acquisition_directory raises ValueError the status is
\* published and the read of the unassigned output_path raises
\* UnboundLocalError; a KeyError is not caught at all, nor is the TypeError of
\* _parse_acquisition_settings. All leave through loguru.logger.catch, past
\* read_message(): the command stays pending.
MainStartAcquisition ==
    /\ mpc = "m_msg"
    /\ cmdq # <<>>
    /\ Head(cmdq).action = "image"
    /\ nroutines < NumCallers
    /\ LET parsed == ParseAcquisitionSettings(Head(cmdq))
           outcome == InitializeAcquisitionDirectory(metadata, dirs)
           t == nroutines + 1
       IN IF parsed.raised
          THEN UNCHANGED <<imager_status, reported, cmdq, routine, dirs, nroutines,
                           imgThreadVars, pc>>
          ELSE IF ~parsed.ok
          THEN /\ imager_status' = "Error"
               /\ reported' = TRUE
               /\ cmdq' = ReadMessage(cmdq)
               /\ UNCHANGED <<routine, dirs, nroutines, imgThreadVars, pc>>
          ELSE IF outcome = "ValueError"
          THEN /\ imager_status' = "Configuration update error"
               /\ reported' = TRUE
               /\ UNCHANGED <<cmdq, routine, dirs, nroutines, imgThreadVars, pc>>
          ELSE IF outcome = "KeyError"
          THEN UNCHANGED <<imager_status, reported, cmdq, routine, dirs, nroutines,
                           imgThreadVars, pc>>
          ELSE /\ dirs' = dirs \cup {AcqDirPath(metadata)}
               /\ routine' = t
               /\ nroutines' = t
               /\ settings' = [settings EXCEPT ![t] = parsed]
               /\ output_path' = [output_path EXCEPT ![t] = AcqDirPath(metadata)]
               /\ pc' = [pc EXCEPT ![t] = "rt_start"]
               /\ cmdq' = ReadMessage(cmdq)
               /\ UNCHANGED <<imager_status, reported, interrupted, captured, indices,
                               ended>>
    /\ mpc' = "m_loop"
    /\ UNCHANGED <<mret, metadata, nsent>>
    /\ UNCHANGED <<discrete_run, done, subscribed, inbox, rpc, call, spc, actuator,
                   pump_started, stepper, ncalls, nstops, cleared, fired, published, moves,
                   answered>>
    /\ UNCHANGED notImager

\* _handle_new_message, action "stop": with a routine, self._routine.stop()
\* sets the interrupted flag and calls pump.stop(); without, nothing.
MainStopCommand ==
    /\ mpc = "m_msg"
    /\ cmdq # <<>>
    /\ Head(cmdq).action = "stop"
    /\ IF routine # 0
       THEN /\ interrupted' = [interrupted EXCEPT ![routine] = TRUE]
            /\ spc' = "st_subscribe"
            /\ mpc' = "m_stop"
            /\ mret' = "cmd"
            /\ UNCHANGED cmdq
       ELSE /\ cmdq' = ReadMessage(cmdq)
            /\ mpc' = "m_loop"
            /\ UNCHANGED <<interrupted, spc, mret>>
    /\ UNCHANGED <<routine, metadata, dirs, nsent, reported, imager_status, nroutines,
                   settings, output_path, captured, indices, ended>>
    /\ UNCHANGED <<discrete_run, done, subscribed, inbox, rpc, pc, call, actuator,
                   pump_started, stepper, ncalls, nstops, cleared, fired, published, moves,
                   answered>>
    /\ UNCHANGED notImager

\* ImageAcquisitionRoutine.stop(), after pump.stop() returned: self.join(),
\* then self._routine = None in the caller (and read_message() for a command).
JoinedAtOnce(t) == TRUE
Joined(t) == ~IsAlive(t)

MainJoin ==
    /\ mpc = "m_stop"
    /\ spc = "st_ret"
    /\ Joined(routine)
    /\ spc' = "idle"
    /\ routine' = 0
    /\ cmdq' = IF mret = "cmd" THEN ReadMessage(cmdq) ELSE cmdq
    /\ mpc' = "m_loop"
    /\ UNCHANGED <<mret, metadata, dirs, nsent, reported, imager_status, nroutines,
                   imgThreadVars>>
    /\ UNCHANGED <<discrete_run, done, subscribed, inbox, rpc, pc, call, actuator,
                   pump_started, stepper, ncalls, nstops, cleared, fired, published, moves,
                   answered>>
    /\ UNCHANGED notImager

\* ------------------------------------------ ImageAcquisitionRoutine.run
\* self._mqtt_client.publish("status/imager", '{"status":"Started"}')
RoutineStart(t) ==
    /\ pc[t] = "rt_start"
    /\ imager_status' = "Started"
    /\ pc' = [pc EXCEPT ![t] = "rs_top"]
    /\ UNCHANGED <<mpc, mret, routine, metadata, dirs, cmdq, nsent, reported, nroutines,
                   imgThreadVars>>
    /\ UNCHANGED <<discrete_run, done, subscribed, inbox, rpc, call, spc, actuator,
                   pump_started, stepper, ncalls, nstops, cleared, fired, published, moves,
                   answered>>
    /\ UNCHANGED notImager

\* stopflow.Routine.run_step, its top: over when interrupted or when all
\* images are captured; else pump.run_discrete(settings.pump) is called.
RunStepTop(t) ==
    /\ pc[t] = "rs_top"
    /\ mqtt \/ interrupted[t] \/ captured[t] >= settings[t].total_images
    /\ pc' = [pc EXCEPT ![t] = IF interrupted[t] \/ captured[t] >= settings[t].total_images
                               THEN "rt_end" ELSE "rd_acquire"]
    /\ UNCHANGED imgVars
    /\ UNCHANGED <<discrete_run, done, subscribed, inbox, rpc, call, spc, actuator,
                   pump_started, stepper, ncalls, nstops, cleared, fired, published, moves,
                   answered>>
    /\ UNCHANGED notImager

\* run_discrete called by run_step once close() has set self._mqtt to None:
\* RuntimeError at its first test, or AttributeError at subscribe/publish.
\* ImageAcquisitionRoutine.run catches FileNotFoundError only, so the thread
\* ends there, with no status published.
RoutineRaise(t) ==
    /\ ~mqtt
    /\ \/ pc[t] = "rs_top" /\ ~(interrupted[t] \/ captured[t] >= settings[t].total_images)
       \/ pc[t] \in {"rd_subscribe", "rd_publish"}
    /\ pc' = [pc EXCEPT ![t] = "dead"]
    /\ call' = [call EXCEPT ![t] = 0]
    /\ UNCHANGED imgVars
    /\ UNCHANGED <<discrete_run, done, subscribed, inbox, rpc, spc, actuator,
                   pump_started, stepper, ncalls, nstops, cleared, fired, published, moves,
                   answered>>
    /\ UNCHANGED notImager

\* run_step, after run_discrete returned: the stabilization sleep and the
\* capture of one image into the output directory.
RunStepCapture(t) ==
    /\ pc[t] = "rd_ret"
    /\ captured' = [captured EXCEPT ![t] = captured[t] + 1]
    /\ indices' = [indices EXCEPT ![t] = Append(indices[t], captured[t])]
    /\ call' = [call EXCEPT ![t] = 0]
    /\ pc' = [pc EXCEPT ![t] = "rt_log"]
    /\ UNCHANGED <<mpc, mret, routine, metadata, dirs, cmdq, nsent, reported, imager_status,
                   nroutines, settings, output_path, interrupted, ended>>
    /\ UNCHANGED <<discrete_run, done, subscribed, inbox, rpc, spc, actuator,
                   pump_started, stepper, ncalls, nstops, cleared, fired, published, moves,
                   answered>>
    /\ UNCHANGED notImager

\* where the routine thread goes once an image is saved: `while True` takes it
\* back to run_step (not out of the loop).
LoopBreaksAfterSaved == "dead"
LoopAfterSaved == "rs_top"

\* integrity.append_to_integrity_file(filename_path): the "saved" status, or
\* FileNotFoundError, the "WAS NOT CAPTURED" status and the end of the thread.
RoutineLog(t) ==
    /\ pc[t] = "rt_log"
    /\ \E found \in BOOLEAN :
          /\ imager_status' = IF found THEN "Image saved" ELSE "Image WAS NOT CAPTURED"
          /\ pc' = [pc EXCEPT ![t] = IF found THEN LoopAfterSaved ELSE "dead"]
          /\ ended' = [ended EXCEPT ![t] = IF found THEN "" ELSE "Failed"]
    /\ UNCHANGED <<mpc, mret, routine, metadata, dirs, cmdq, nsent, reported, nroutines,
                   settings, output_path, interrupted, captured, indices>>
    /\ UNCHANGED <<discrete_run, done, subscribed, inbox, rpc, call, spc, actuator,
                   pump_started, stepper, ncalls, nstops, cleared, fired, published, moves,
                   answered>>
    /\ UNCHANGED notImager

\* run_step returned None: "Interrupted" or "Done", and the thread ends.
RoutineEnd(t) ==
    /\ pc[t] = "rt_end"
    /\ imager_status' = IF interrupted[t] THEN "Interrupted" ELSE "Done"
    /\ ended' = [ended EXCEPT ![t] = imager_status']
    /\ pc' = [pc EXCEPT ![t] = "dead"]
    /\ UNCHANGED <<mpc, mret, routine, metadata, dirs, cmdq, nsent, reported, nroutines,
                   settings, output_path, interrupted, captured, indices>>
    /\ UNCHANGED <<discrete_run, done, subscribed, inbox, rpc, call, spc, actuator,
                   pump_started, stepper, ncalls, nstops, cleared, fired, published, moves,
                   answered>>
    /\ UNCHANGED notImager

\* ------------------------------- ImagerProcess.run: startup and shutdown
\* self._mqtt = mqtt.MQTT_Client(...); publish "Starting up"
MainStartingUp ==
    /\ mpc = "m_start"
    /\ imager_status' = "Starting up"
    /\ mpc' = "m_open"
    /\ UNCHANGED <<mret, routine, metadata, dirs, cmdq, nsent, reported, nroutines,
                   imgThreadVars>>
    /\ UNCHANGED <<pumpVars, closeVars, runVars>>
    /\ UNCHANGED notRun

\* self._pump.open() and self._camera.open(), each of which starts its
\* receiver thread; publish "Ready"
MainReady ==
    /\ mpc = "m_open"
    /\ mqtt' = TRUE
    /\ rpc' = "r_poll"
    /\ kpc' = "uncalled"
    /\ cam_rcv' = "running"
    /\ imager_status' = "Ready"
    /\ mpc' = "m_loop"
    /\ UNCHANGED <<mret, routine, metadata, dirs, cmdq, nsent, reported, nroutines,
                   imgThreadVars>>
    /\ UNCHANGED <<discrete_run, done, subscribed, inbox, pc, call, spc, actuator,
                   pump_started, stepper, ncalls, nstops, cleared, fired, published, moves,
                   answered>>
    /\ UNCHANGED <<receiver_close, stop_event>>
    /\ UNCHANGED notRun

\* the shutdown event is set, by the process that started the imager
SetStopEvent ==
    /\ ~stop_event
    /\ stop_event' = TRUE
    /\ UNCHANGED cam_rcv
    /\ UNCHANGED <<pumpVars, imgVars, closeVars>>
    /\ UNCHANGED notRun

\* the loop test finds the event set; finally: publish "Dead", then
\* self._camera.close(), which sets the close event of the camera's receiver
\* thread and joins it
MainExit ==
    /\ mpc = "m_loop"
    /\ stop_event
    /\ imager_status' = "Dead"
    /\ cam_rcv' = IF cam_rcv = "running" THEN "closing" ELSE cam_rcv
    /\ mpc' = "m_camera_close"
    /\ UNCHANGED <<mret, routine, metadata, dirs, cmdq, nsent, reported, nroutines,
                   imgThreadVars>>
    /\ UNCHANGED <<pumpVars, closeVars, stop_event>>
    /\ UNCHANGED notRun

\* MQTTCamera._receive_messages finds its close event set at the top of its loop
CameraReceiverExit ==
    /\ cam_rcv = "closing"
    /\ cam_rcv' = "dead"
    /\ UNCHANGED stop_event
    /\ UNCHANGED <<pumpVars, imgVars, closeVars>>
    /\ UNCHANGED notRun

\* self._camera.close() returns once the receiver thread is joined (and the
\* streaming server and the camera are closed); self._pump.close() is called
MainPumpClose ==
    /\ mpc = "m_camera_close"
    /\ cam_rcv = "dead"
    /\ kpc' = "idle"
    /\ mpc' = "m_pump_close"
    /\ UNCHANGED <<mret, routine, metadata, dirs, cmdq, nsent, reported, imager_status,
                   nroutines, imgThreadVars>>
    /\ UNCHANGED <<mqtt, receiver_close>>
    /\ UNCHANGED <<pumpVars, runVars>>
    /\ UNCHANGED notRun

\* self._pump.close() returned, or raised; self._mqtt.shutdown() and the end
\* of the main thread
MainExited ==
    /\ mpc = "m_pump_close"
    /\ kpc \in {"closed", "k_error"}
    /\ mpc' = "m_exited"
    /\ UNCHANGED <<mret, routine, metadata, dirs, cmdq, nsent, reported, imager_status,
                   nroutines, imgThreadVars>>
    /\ UNCHANGED <<pumpVars, closeVars, runVars>>
    /\ UNCHANGED notRun

\* ------------------------------------------------- the operator's commands
MetaEmpty == [object_date |-> None, sample_id |-> None, acq_id |-> None]
Configs ==
    { MetaEmpty,
      [object_date |-> "d1", sample_id |-> None, acq_id |-> "a1"],
      [object_date |-> "d1", sample_id |-> "s1", acq_id |-> "a1"],
      [object_date |-> "d1", sample_id |-> "s1", acq_id |-> "a2"] }

ImageCommand(has, direction, frames) ==
    [action |-> "image", has |-> has, pump_direction |-> direction, nb_frame |-> frames]

Commands ==
    {[action |-> "update_config", has_config |-> TRUE, config |-> c] : c \in Configs}
    \cup {[action |-> "update_config", has_config |-> FALSE, config |-> MetaEmpty]}
    \cup {ImageCommand(RequiredFields, "FORWARD", NumberTexts[n + 1]) : n \in 0..MaxImages}
    \cup {ImageCommand(RequiredFields \ {"volume"}, "FORWARD", "1"),
          ImageCommand(RequiredFields, "UP", "1"),
          ImageCommand(RequiredFields, "BACKWARD", "x"),
          ImageCommand(RequiredFields, "FORWARD", Null)}
    \cup {[action |-> "stop"]}

\* A command arrives on the imager topic.
OperatorSend ==
    /\ nsent < MaxCommands
    /\ Len(cmdq) < MaxPending
    /\ \E c \in Commands : cmdq' = Append(cmdq, c)
    /\ nsent' = nsent + 1
    /\ UNCHANGED <<mpc, mret, routine, metadata, dirs, reported, imager_status, nroutines,
                   imgThreadVars>>
    /\ UNCHANGED pumpVars
    /\ UNCHANGED notImager

\* ============================================================ SettingsValues
\* An Optional field: <<>> for None, <<v>> for the value v.
Absent == <<>>
Some(v) == <<v>>
Val(x) == x[1]
Opt(S) == {Absent} \cup {Some(v) : v \in S}

Fields ==
    {"auto_exposure", "exposure_time", "frame_duration_limits", "image_gain",
     "brightness", "contrast", "auto_white_balance", "white_balance_gains",
     "sharpness", "jpeg_quality"}

\* SettingsValues(): every field None
NoValues == [f \in Fields |-> Absent]

\* The values tried for each field: inside, on the edge of and outside of its range.
FrameLimits == {<<100, 200>>, <<200, 300>>}
ExposureTimes == {150, 250}
Gains == {[red |-> 0, blue |-> 32], [red |-> 33, blue |-> -1]}
Given(f, F, S) == IF f \in F THEN {Some(v) : v \in S} ELSE {Absent}
\* The SettingsValues whose fields F are set, and no other.
SettingsOn(F) ==
    [auto_exposure : Given("auto_exposure", F, {TRUE}),
     exposure_time : Given("exposure_time", F, ExposureTimes),
     frame_duration_limits : Given("frame_duration_limits", F, FrameLimits),
     image_gain : Given("image_gain", F, {16, 17}),
     brightness : Given("brightness", F, {-1, 2}),
     contrast : Given("contrast", F, {0, 33}),
     auto_white_balance : Given("auto_white_balance", F, {FALSE}),
     white_balance_gains : Given("white_balance_gains", F, Gains),
     sharpness : Given("sharpness", F, {16, -1}),
     jpeg_quality : Given("jpeg_quality", F, {95, 96})]

\* SettingsValues.has_values
Present(sv) == {f \in Fields : sv[f] # Absent}
HasValues(sv) == Present(sv) # {}

\* The updates a command may carry: at most MaxPresent fields set.
Updates == UNION {SettingsOn(F) : F \in {G \in SUBSET Fields : Cardinality(G) <= MaxPresent}}

\* a check of the exposure time that only asks for a non-negative value
ValidateExposureTimeNonNegative(sv) ==
    IF sv.exposure_time # Absent /\ Val(sv.exposure_time) < 0
    THEN <<"Exposure time out of range">> ELSE <<>>

\* SettingsValues._validate_exposure_time
ValidateExposureTime(sv) ==
    IF sv.exposure_time = Absent THEN <<>>
    ELSE IF sv.frame_duration_limits = Absent
    THEN IF Val(sv.exposure_time) < 0 THEN <<"Exposure time out of range">> ELSE <<>>
    ELSE LET min_limit == Val(sv.frame_duration_limits)[1]
             max_limit == Val(sv.frame_duration_limits)[2]
         IN IF ~(min_limit <= Val(sv.exposure_time) /\ Val(sv.exposure_time) <= max_limit)
            THEN <<"Exposure time out of range">> ELSE <<>>

\* one "if (value := ...) is not None and not lo <= value <= hi: errors.append(...)"
OutOfRange(x, lo, hi, error) ==
    IF x # Absent /\ ~(lo <= Val(x) /\ Val(x) <= hi) THEN <<error>> ELSE <<>>

\* SettingsValues.validate: the list of errors
Validate(sv) ==
    ValidateExposureTime(sv)
    \o OutOfRange(sv.image_gain, 0, 16, "Image gain out of range")
    \o OutOfRange(sv.brightness, -1, 1, "Brightness out of range")
    \o OutOfRange(sv.contrast, 0, 32, "Contrast out of range")
    \o (IF sv.white_balance_gains = Absent THEN <<>>
        ELSE OutOfRange(Some(Val(sv.white_balance_gains).red), 0, 32,
                        "Red white-balance gain out of range")
             \o OutOfRange(Some(Val(sv.white_balance_gains).blue), 0, 32,
                           "Blue white-balance gain out of range"))
    \o OutOfRange(sv.sharpness, 0, 16, "Sharpness out of range")
    \o OutOfRange(sv.jpeg_quality, 0, 95, "JPEG quality out of range")

\* SettingsValues.overlay: self._replace(**{the non-None fields of updates})
OverlayAll(self, updates) == updates
Overlay(self, updates) ==
    [f \in Fields |-> IF updates[f] # Absent THEN updates[f] ELSE self[f]]

\* SettingsValues.as_picamera2_controls: the controls, None values dropped
ControlFields ==
    [AeEnable |-> "auto_exposure", ExposureTime |-> "exposure_time",
     AnalogueGain |-> "image_gain", Brightness |-> "brightness",
     Contrast |-> "contrast", AwbEnable |-> "auto_white_balance",
     ColourGains |-> "white_balance_gains", Sharpness |-> "sharpness"]
AsPicamera2Controls(sv) ==
    [key \in {k \in DOMAIN ControlFields : sv[ControlFields[k]] # Absent}
        |-> Val(sv[ControlFields[key]])]

\* SettingsValues.as_picamera2_options: {"quality": jpeg_quality}, None dropped
AsPicamera2Options(sv) ==
    [key \in {k \in {"quality"} : sv.jpeg_quality # Absent} |-> Val(sv.jpeg_quality)]

\* _picamera2_config_to_settings_values
Picamera2ConfigToSettingsValues(limits) ==
    [NoValues EXCEPT !["frame_duration_limits"] = Some(limits)]

\* ================================================================= PiCamera
\* PiCamera.open: the camera is configured and the cache takes the
\* FrameDurationLimits of the configuration. Worker.open and Worker.close call
\* open and close while no other thread can be in the setter.
CameraOpen ==
    /\ ~cam_open
    /\ ~setting
    /\ cam_open' = TRUE
    /\ \E limits \in FrameLimits : cached' = Picamera2ConfigToSettingsValues(limits)
    /\ camera_options' = Absent
    /\ UNCHANGED <<upd, setting, result, driver_calls>>
    /\ UNCHANGED notCamera

\* PiCamera.close
CameraClose ==
    /\ cam_open
    /\ ~setting
    /\ cam_open' = FALSE
    /\ cached' = NoValues
    /\ UNCHANGED <<upd, setting, result, driver_calls, camera_options>>
    /\ UNCHANGED notCamera

\* camera.settings = updates: the setter is called.
SettingsCall ==
    /\ ~setting
    /\ \E u \in Updates : upd' = u
    /\ setting' = TRUE
    /\ result' = "running"
    /\ driver_calls' = <<>>
    /\ UNCHANGED <<cam_open, cached, camera_options>>
    /\ UNCHANGED notCamera

\* What the body of the setter does with the cache c and the updates u:
\* how it ends, the cache, the calls made on picamera2 and the camera's options.
SetterCommitsUnchecked(c, u, open, options) ==
    [result |-> "ok", cached |-> Overlay(c, u),
     calls |-> <<[call |-> "set_controls", controls |-> AsPicamera2Controls(Overlay(c, u))]>>,
     options |-> options]
SetterAppliesFirst(c, u, open, options) ==
    LET merged == Overlay(c, u)
        calls == <<[call |-> "set_controls", controls |-> AsPicamera2Controls(merged)]>>
    IN IF Validate(merged) # <<>>
       THEN [result |-> "ValueError", cached |-> c,
             calls |-> calls, options |-> options]
       ELSE [result |-> "ok", cached |-> merged,
             calls |-> calls, options |-> options]
\* a setter that gives picamera2 the controls of the updates alone
SetterPushesUpdates(c, u, open, options) ==
    IF ~HasValues(u)
    THEN [result |-> "noop", cached |-> c, calls |-> <<>>, options |-> options]
    ELSE IF ~open
    THEN [result |-> "RuntimeError", cached |-> c, calls |-> <<>>, options |-> options]
    ELSE IF Validate(Overlay(c, u)) # <<>>
    THEN [result |-> "ValueError", cached |-> c, calls |-> <<>>, options |-> options]
    ELSE [result |-> "ok", cached |-> Overlay(c, u),
          calls |-> <<[call |-> "set_controls", controls |-> AsPicamera2Controls(u)]>>,
          options |-> options]
\* a setter that tests self._camera before updates.has_values()
SetterChecksCameraFirst(c, u, open, options) ==
    IF ~open
    THEN [result |-> "RuntimeError", cached |-> c, calls |-> <<>>, options |-> options]
    ELSE IF ~HasValues(u)
    THEN [result |-> "noop", cached |-> c, calls |-> <<>>, options |-> options]
    ELSE LET merged == Overlay(c, u)
         IN IF Validate(merged) # <<>>
            THEN [result |-> "ValueError", cached |-> c, calls |-> <<>>, options |-> options]
            ELSE [result |-> "ok", cached |-> merged,
                  calls |-> <<[call |-> "set_controls",
                               controls |-> AsPicamera2Controls(merged)]>>,
                  options |-> IF "quality" \in DOMAIN AsPicamera2Options(u)
                              THEN Some(AsPicamera2Options(u)["quality"])
                              ELSE options]
Setter(c, u, open, options) ==
    IF ~HasValues(u)
    THEN [result |-> "noop", cached |-> c, calls |-> <<>>,
          options |-> options]
    ELSE IF ~open
    THEN [result |-> "RuntimeError", cached |-> c,
          calls |-> <<>>, options |-> options]
    ELSE LET merged == Overlay(c, u)
         IN IF Validate(merged) # <<>>
            THEN [result |-> "ValueError", cached |-> c,
                  calls |-> <<>>, options |-> options]
            ELSE [result |-> "ok", cached |-> merged,
                  calls |-> <<[call |-> "set_controls",
                               controls |-> AsPicamera2Controls(merged)]>>,
                  options |-> IF "quality" \in DOMAIN AsPicamera2Options(u)
                              THEN Some(AsPicamera2Options(u)["quality"])
                              ELSE options]

\* The setter runs and returns or raises.
SettingsApply ==
    /\ setting
    /\ LET out == Setter(cached, upd, cam_open, camera_options)
       IN /\ result' = out.result
          /\ cached' = out.cached
          /\ driver_calls' = out.calls
          /\ camera_options' = out.options
    /\ setting' = FALSE
    /\ upd' = NoValues
    /\ UNCHANGED cam_open
    /\ UNCHANGED notCamera

\* ============================================================ camera Worker
\* Worker.__init__: self._settings. The gains come from the hardware
\* configuration file; they are inside of their range.
DefaultSettings ==
    [auto_exposure |-> Some(FALSE), exposure_time |-> Some(125),
     frame_duration_limits |-> Absent, image_gain |-> Some(1),
     brightness |-> Some(0), contrast |-> Some(1),
     auto_white_balance |-> Some(FALSE),
     white_balance_gains |-> Some([red |-> 2, blue |-> 1]),
     sharpness |-> Some(0), jpeg_quality |-> Some(80)]

\* int(text), float(text): Absent stands for the ValueError
ParseNumber(text) ==
    CASE text = "150" -> Some(150)
      [] text = "250" -> Some(250)
      [] text = "-5" -> Some(-5)
      [] text = "100" -> Some(100)
      [] text = "1700" -> Some(1700)
      [] OTHER -> Absent

\* The "settings" of a command: each key is there or not.
CommandKeys == {"shutter_speed", "iso", "white_balance", "white_balance_gain"}
CommandSettingsOn(K) ==
    [shutter_speed : Given("shutter_speed", K, {"150", "250", "-5", "fast"}),
     iso : Given("iso", K, {"100", "1700"}),
     white_balance : Given("white_balance", K, {"auto", "off", "sunny"}),
     white_balance_gain : Given("white_balance_gain", K,
                                {[red |-> Some(200), blue |-> Some(100)],
                                 [red |-> Some(3300), blue |-> Some(100)],
                                 [red |-> Some(200), blue |-> Absent]})]
CommandSettings ==
    UNION {CommandSettingsOn(K) : K \in {G \in SUBSET CommandKeys : Cardinality(G) <= MaxPresent}}

\* The messages on imager/image: a settings command, a settings command
\* without "settings", and a command with another action.
WorkerMessages ==
    {[action |-> "settings", settings |-> Some(cs)] : cs \in CommandSettings}
    \cup {[action |-> "settings", settings |-> Absent],
          [action |-> "image", settings |-> Absent]}

\* _convert_white_balance_gain_settings: hundredths, a missing gain is taken
\* from the defaults
ConvertWhiteBalanceGainSettings(cs, default_white_balance_gains) ==
    IF cs.white_balance_gain = Absent THEN [error |-> "", value |-> NoValues]
    ELSE LET g == Val(cs.white_balance_gain)
         IN IF (g.red = Absent \/ g.blue = Absent) /\ default_white_balance_gains = Absent
            THEN [error |-> "White balance gain not valid", value |-> NoValues]
            ELSE [error |-> "",
                  value |-> [NoValues EXCEPT !.white_balance_gains =
                      Some([red |-> IF g.red = Absent
                                    THEN Val(default_white_balance_gains).red
                                    ELSE Val(g.red) \div 100,
                            blue |-> IF g.blue = Absent
                                     THEN Val(default_white_balance_gains).blue
                                     ELSE Val(g.blue) \div 100])]]

\* _convert_image_gain_settings: image_gain = iso / 100
ConvertImageGainSettings(cs) ==
    IF cs.iso = Absent THEN [error |-> "", value |-> NoValues]
    ELSE IF ParseNumber(Val(cs.iso)) = Absent
    THEN [error |-> "Iso number not valid", value |-> NoValues]
    ELSE [error |-> "",
          value |-> [NoValues EXCEPT !.image_gain = Some(Val(ParseNumber(Val(cs.iso))) \div 100)]]

\* _convert_settings: the first ValueError, or the converted values
ConvertSettings(cs, default_white_balance_gains) ==
    LET shutter == IF cs.shutter_speed = Absent THEN Absent
                   ELSE ParseNumber(Val(cs.shutter_speed))
        gain == ConvertImageGainSettings(cs)
        wbg == ConvertWhiteBalanceGainSettings(cs, default_white_balance_gains)
        first == [NoValues EXCEPT !.exposure_time = shutter]
        second == Overlay(first, gain.value)
        third == IF cs.white_balance = Absent THEN second
                 ELSE [second EXCEPT !.auto_white_balance =
                           Some(Val(cs.white_balance) # "off")]
    IN IF cs.shutter_speed # Absent /\ shutter = Absent
       THEN [error |-> "Shutter speed not valid", value |-> NoValues]
       ELSE IF gain.error # "" THEN gain
       ELSE IF cs.white_balance # Absent /\ Val(cs.white_balance) \notin {"auto", "off"}
       THEN [error |-> "White balance mode {awb} not valid", value |-> NoValues]
       ELSE IF wbg.error # "" THEN wbg
       ELSE [error |-> "", value |-> Overlay(third, wbg.value)]

\* _validate_settings: the message of the ValueError for the first error of
\* validate(), "" when there is none
ValidateSettings(sv) ==
    IF Validate(sv) = <<>> THEN ""
    ELSE LET e == Validate(sv)[1]
         IN CASE e = "Exposure time out of range" -> "Shutter speed not valid"
              [] e = "Image gain out of range" -> "Iso number not valid"
              [] e = "Red white-balance gain out of range" -> "White balance gain not valid"
              [] e = "Blue white-balance gain out of range" -> "White balance gain not valid"
              [] e = "Brightness out of range" -> "Brightness not valid"
              [] e = "Contrast out of range" -> "Contrast not valid"
              [] e = "Sharpness out of range" -> "Sharpness not valid"
              [] OTHER -> "JPEG quality not valid"

\* Worker.open, under loguru.logger.catch: the camera is opened, the default
\* settings are applied and the receiver thread is started; when the setter
\* raises, open() ends there and no receiver thread exists.
WorkerOpen ==
    /\ w_thread = "unstarted"
    /\ ~cam_open
    /\ \E limits \in FrameLimits :
          LET out == Setter(Picamera2ConfigToSettingsValues(limits), DefaultSettings,
                            TRUE, Absent)
          IN /\ cam_open' = TRUE
             /\ cached' = out.cached
             /\ driver_calls' = out.calls
             /\ camera_options' = out.options
             /\ result' = out.result
             /\ w_thread' = IF out.result = "ok" THEN "running" ELSE "failed"
    /\ UNCHANGED <<upd, setting, w_msg, w_status, w_handled>>
    /\ UNCHANGED notWorker

\* The MQTT client receives a message on imager/image and holds it.
WorkerDeliver ==
    /\ w_thread \in {"running", "dead"}
    /\ w_msg = Absent
    /\ w_handled <= MaxImages
    /\ \E message \in WorkerMessages : w_msg' = Some(message)
    /\ UNCHANGED <<w_thread, w_status, w_handled>>
    /\ UNCHANGED camVars
    /\ UNCHANGED notWorker

\* One turn of Worker._receive_messages with a message: _receive_message,
\* then read_message(). An exception of _receive_message leaves the loop, and
\* the thread ends with the message unread.
WorkerReceive ==
    /\ w_thread = "running"
    /\ w_msg # Absent
    /\ w_handled' = w_handled + 1
    /\ LET message == Val(w_msg)
           conv == ConvertSettings(Val(message.settings), cached.white_balance_gains)
           out == Setter(cached, conv.value, cam_open, camera_options)
       IN IF message.action # "settings"
          THEN /\ w_status' = Absent
               /\ w_msg' = Absent
               /\ UNCHANGED <<w_thread, camVars>>
          ELSE IF message.settings = Absent
          THEN /\ w_status' = Some("Camera settings error")
               /\ w_msg' = Absent
               /\ UNCHANGED <<w_thread, camVars>>
          ELSE IF conv.error # ""
          THEN /\ w_status' = Some(<<"Error: ", conv.error>>)
               /\ w_msg' = Absent
               /\ UNCHANGED <<w_thread, camVars>>
          ELSE IF ValidateSettings(conv.value) # ""
          THEN /\ w_status' = Some(<<"Error: ", ValidateSettings(conv.value)>>)
               /\ w_msg' = Absent
               /\ UNCHANGED <<w_thread, camVars>>
          ELSE /\ result' = out.result
               /\ cached' = out.cached
               /\ driver_calls' = out.calls
               /\ camera_options' = out.options
               /\ UNCHANGED <<cam_open, upd, setting>>
               /\ IF out.result \in {"ok", "noop"}
                  THEN /\ w_status' = Some("Camera settings updated")
                       /\ w_msg' = Absent
                       /\ UNCHANGED w_thread
                  ELSE /\ w_status' = Absent
                       /\ w_thread' = "dead"
                       /\ UNCHANGED w_msg
    /\ UNCHANGED notWorker

NextWorker == WorkerOpen \/ WorkerDeliver \/ WorkerReceive

\* --------------------------------------- validate on arbitrary values
\* The values validate() is called on: the updates, with any exposure time
\* (negative, zero, inside and outside of the frame duration limits) or none.
AnyExposureTimes == {-1, 0, 150, 250}
ValidateInputs ==
    {[u EXCEPT !.exposure_time = e] : u \in Updates, e \in Opt(AnyExposureTimes)}

ValidateCall ==
    /\ ~val_done
    /\ val_errors' = Validate(val_self)
    /\ val_done' = TRUE
    /\ UNCHANGED val_self
    /\ UNCHANGED notValidate

\* ---------------------------------------- overlay on arbitrary operands
OverlayCall ==
    /\ ~ov_done
    /\ ov_result' = Overlay(ov_self, ov_updates)
    /\ ov_done' = TRUE
    /\ UNCHANGED <<ov_self, ov_updates>>
    /\ UNCHANGED notOverlay

\* ========================================================= the preview stream
\* The stream is a streams.Latest (behind LatestByteBuffer) or a PreviewStream.
Impls == {"Latest", "PreviewStream"}

\* "with self._latest_value_lock.gen_wlock(): self._latest_value = value"
FirstStoreKeeps(current, value) == current
FirstStore(current, value) == value

\* Latest.write stores the value once more while it holds self._available;
\* PreviewStream.write does not.
SecondStoreClears(i, current, value) == 0
SecondStore(i, current, value) == IF i = "Latest" THEN value ELSE current

\* self._available.notify_all(): every thread blocked in wait() is woken.
NotifyOne(p) ==
    [c \in DOMAIN p |->
        IF p[c] = "wn_blocked" /\ \A d \in DOMAIN p : p[d] = "wn_blocked" => c <= d
        THEN "wn_woken" ELSE p[c]]
NotifyAll(p) == [c \in DOMAIN p |-> IF p[c] = "wn_blocked" THEN "wn_woken" ELSE p[c]]

\* ---------------------------------------------------------------- write
\* The encoder thread calls write(value).
WriteCall ==
    /\ wpc = "idle"
    /\ nwrites < MaxWrites
    /\ nwrites' = nwrites + 1
    /\ wvalue' = nwrites + 1
    /\ wpc' = "w_request"
    /\ UNCHANGED <<impl, latest_value, wlocked, readers, available, completed, cpc,
                   got, prev, gstart, notified>>
    /\ UNCHANGED notChannel

\* gen_wlock().acquire: the writer announces itself; from now on no reader
\* is let in (RWLockWrite gives writers priority).
WriteRequest ==
    /\ wpc = "w_request"
    /\ wpc' = "w_wlock"
    /\ UNCHANGED <<impl, latest_value, wlocked, readers, available, wvalue, nwrites,
                   completed, cpc, got, prev, gstart, notified>>
    /\ UNCHANGED notChannel

\* the write lock is taken once the readers have left.
WriteLock ==
    /\ wpc = "w_wlock"
    /\ readers = {}
    /\ wlocked' = TRUE
    /\ wpc' = "w_store"
    /\ UNCHANGED <<impl, latest_value, readers, available, wvalue, nwrites, completed,
                   cpc, got, prev, gstart, notified>>
    /\ UNCHANGED notChannel

\* the value is stored and the write lock released.
WriteStore ==
    /\ wpc = "w_store"
    /\ latest_value' = FirstStore(latest_value, wvalue)
    /\ wlocked' = FALSE
    /\ wpc' = "w_available"
    /\ UNCHANGED <<impl, readers, available, wvalue, nwrites, completed, cpc, got,
                   prev, gstart, notified>>
    /\ UNCHANGED notChannel

\* "with self._available:" and, in Latest, the second store.
WriteAvailable ==
    /\ wpc = "w_available"
    /\ available = "free"
    /\ available' = "writer"
    /\ latest_value' = SecondStore(impl, latest_value, wvalue)
    /\ wpc' = "w_notify"
    /\ UNCHANGED <<impl, wlocked, readers, wvalue, nwrites, completed, cpc, got, prev,
                   gstart, notified>>
    /\ UNCHANGED notChannel

\* notify_all(), the lock of self._available is released and write() returns.
WriteNotify ==
    /\ wpc = "w_notify"
    /\ cpc' = NotifyAll(cpc)
    /\ notified' = [c \in Consumers |-> TRUE]
    /\ available' = "free"
    /\ completed' = completed + 1
    /\ wpc' = "idle"
    /\ UNCHANGED <<impl, latest_value, wlocked, readers, wvalue, nwrites, got, prev,
                   gstart>>
    /\ UNCHANGED notChannel

\* ------------------------------------------------------------ wait_next
\* "with self._available:" in wait_next
WaitNextEnter(c) ==
    /\ cpc[c] = "loop"
    /\ available = "free"
    /\ available' = "consumer"
    /\ cpc' = [cpc EXCEPT ![c] = "wn_wait"]
    /\ UNCHANGED <<impl, latest_value, wlocked, readers, wpc, wvalue, nwrites,
                   completed, got, prev, gstart, notified>>
    /\ UNCHANGED notChannel

\* self._available.wait(): the thread joins the waiters, releases the lock
\* and blocks.
WaitNextWait(c) ==
    /\ cpc[c] = "wn_wait"
    /\ available' = "free"
    /\ notified' = [notified EXCEPT ![c] = FALSE]
    /\ cpc' = [cpc EXCEPT ![c] = "wn_blocked"]
    /\ UNCHANGED <<impl, latest_value, wlocked, readers, wpc, wvalue, nwrites,
                   completed, got, prev, gstart>>
    /\ UNCHANGED notChannel

\* a woken thread takes the lock of self._available again, leaves the with
\* block and wait_next returns.
WaitNextReturn(c) ==
    /\ cpc[c] = "wn_woken"
    /\ available = "free"
    /\ cpc' = [cpc EXCEPT ![c] = "get"]
    /\ UNCHANGED <<impl, latest_value, wlocked, readers, available, wpc, wvalue,
                   nwrites, completed, got, prev, gstart, notified>>
    /\ UNCHANGED notChannel

\* ------------------------------------------------------------------ get
\* gen_rlock().acquire: let in when no writer holds or awaits the write lock.
GetLock(c) ==
    /\ cpc[c] \in {"get", "get_now"}
    /\ ~wlocked
    /\ wpc # "w_wlock"
    /\ readers' = readers \cup {c}
    /\ gstart' = [gstart EXCEPT ![c] = completed]
    /\ cpc' = [cpc EXCEPT ![c] = IF cpc[c] = "get" THEN "g_read" ELSE "g_read_now"]
    /\ UNCHANGED <<impl, latest_value, wlocked, available, wpc, wvalue, nwrites,
                   completed, got, prev, notified>>
    /\ UNCHANGED notChannel

\* leaving "with ...gen_rlock():" the reader gives the read lock back.
ReleaseReadNever(rs, c) == rs
ReleaseRead(rs, c) == rs \ {c}

\* what get() leaves in the slot: "return self._latest_value" takes nothing out
AfterGetTakes(current) == 0
AfterGet(current) == current

\* the value is read, the read lock released; do_GET sends the frame unless
\* it is None; a get() called on its own just returns.
GetRead(c) ==
    /\ cpc[c] \in {"g_read", "g_read_now"}
    /\ got' = [got EXCEPT ![c] = latest_value]
    /\ latest_value' = AfterGet(latest_value)
    /\ readers' = ReleaseRead(readers, c)
    /\ cpc' = [cpc EXCEPT ![c] = IF latest_value = 0 \/ cpc[c] = "g_read_now"
                                 THEN "loop" ELSE "send"]
    /\ UNCHANGED <<impl, wlocked, available, wpc, wvalue, nwrites,
                   completed, prev, gstart, notified>>
    /\ UNCHANGED notChannel

\* A thread calls get() without having waited (get() is callable at any time).
GetCall(c) ==
    /\ cpc[c] = "loop"
    /\ cpc' = [cpc EXCEPT ![c] = "get_now"]
    /\ UNCHANGED <<impl, latest_value, wlocked, readers, available, wpc, wvalue,
                   nwrites, completed, got, prev, gstart, notified>>
    /\ UNCHANGED notChannel

\* self._send_mjpeg_frame(frame)
SendFrame(c) ==
    /\ cpc[c] = "send"
    /\ prev' = [prev EXCEPT ![c] = got[c]]
    /\ gstart' = [gstart EXCEPT ![c] = 0]
    /\ cpc' = [cpc EXCEPT ![c] = "loop"]
    /\ UNCHANGED <<impl, latest_value, wlocked, readers, available, wpc, wvalue,
                   nwrites, completed, got, notified>>
    /\ UNCHANGED notChannel

\* ================================================ MQTTCamera (pscopehat)
\* The camera of the imager process has an MQTT client of its own on
\* imager/image and a receiver thread for the settings commands; the main
\* thread's client receives these commands too and only reads them.
DefaultExposure == 0
ShutterSpeeds == {1, 2}
ValidShutterSpeed(v) == v = 1

SettingsCommands ==
    {[action |-> "settings", has_settings |-> TRUE, shutter_speed |-> v] : v \in ShutterSpeeds}
    \cup {[action |-> "settings", has_settings |-> FALSE, shutter_speed |-> 0]}

\* A settings command arrives.
CameraSend ==
    /\ nsent < MaxCommands
    /\ camq = <<>>
    /\ \E c \in SettingsCommands : camq' = Append(camq, c)
    /\ nsent' = nsent + 1
    /\ UNCHANGED controls
    /\ UNCHANGED <<mpc, mret, routine, metadata, dirs, cmdq, reported, imager_status,
                   nroutines, imgThreadVars>>
    /\ UNCHANGED notMqttCamera

\* MQTTCamera._receive_messages, one turn of its loop with a message: without
\* the "settings" field the error status is published and the message stays
\* unread; else the message is read and the shutter speed handed to the
\* camera, which refuses it with ValueError ("Error: Shutter speed not valid")
\* or takes it ("Camera settings updated").
CameraReceive ==
    /\ camq # <<>>
    /\ IF ~Head(camq).has_settings
       THEN /\ imager_status' = "Camera settings error"
            /\ UNCHANGED <<camq, controls>>
       ELSE /\ camq' = ReadMessage(camq)
            /\ IF ValidShutterSpeed(Head(camq).shutter_speed)
               THEN /\ controls' = Head(camq).shutter_speed
                    /\ imager_status' = "Camera settings updated"
               ELSE /\ imager_status' = "Error: Shutter speed not valid"
                    /\ UNCHANGED controls
    /\ UNCHANGED <<mpc, mret, routine, metadata, dirs, cmdq, nsent, reported, nroutines,
                   imgThreadVars>>
    /\ UNCHANGED notMqttCamera

\* ============================================ ImagerProcess (adafruithat)
\* The imager of the adafruithat tree: one thread that, in each turn of its
\* loop, treats one received message (if any) and then runs the state machine.
LegacyStates == {"stop", "imaging", "waiting", "capture"}

\* state_machine.Imager.change(state)
Change(state) == state

\* a status/pump message, as opposed to an imager/# command
PumpStatus(s) == [status |-> s]
IsPumpStatus(msg) == "status" \in DOMAIN msg

\* The pump process finishes the move it was commanded: "Done" on status/pump,
\* which the imager receives when it is subscribed.
LegacyPumpDone ==
    /\ lpump = "moving"
    /\ lpump' = "idle"
    /\ msgq' = IF pump_sub THEN Append(msgq, PumpStatus("Done")) ELSE msgq
    /\ UNCHANGED <<lpc, imager_state, img_goal, img_done, img_error, global_metadata,
                   export_dirs, pump_sub, lstatus, lmoves, lsent, failures, recovered, lcamera>>
    /\ UNCHANGED notLegacy

\* if self.imager_client.new_message_received(): ... with no message
TreatNothing ==
    /\ lpc = "treat"
    /\ msgq = <<>>
    /\ lpc' = "machine"
    /\ UNCHANGED <<imager_state, img_goal, img_done, img_error, global_metadata,
                   export_dirs,
                   msgq, pump_sub, lpump, lstatus, lmoves, lsent, failures, recovered, lcamera>>
    /\ UNCHANGED notLegacy

\* treat_message, topic status/pump: in the state waiting, "Done" moves the
\* machine to capture and unsubscribes; anything else is logged only.
TreatPumpStatus ==
    /\ lpc = "treat"
    /\ msgq # <<>>
    /\ IsPumpStatus(Head(msgq))
    /\ IF imager_state = "waiting" /\ Head(msgq).status = "Done"
       THEN /\ imager_state' = Change("capture")
            /\ pump_sub' = FALSE
       ELSE UNCHANGED <<imager_state, pump_sub>>
    /\ msgq' = ReadMessage(msgq)
    /\ lpc' = "machine"
    /\ UNCHANGED <<img_goal, img_done, img_error, global_metadata,
                   export_dirs, lpump,
                   lstatus, lmoves, lsent, failures, recovered, lcamera>>
    /\ UNCHANGED notLegacy

\* __message_image: "Error" when a field is missing; else the machine moves
\* to imaging before the numbers are parsed, and a number that does not parse
\* raises ValueError (swallowed by logger.catch) before the goal, the counter
\* and the "Started" status.
MessageImage ==
    /\ lpc = "treat"
    /\ msgq # <<>>
    /\ ~IsPumpStatus(Head(msgq))
    /\ Head(msgq).action = "image"
    /\ LET msg == Head(msgq)
       IN IF ~(RequiredFields \subseteq msg.has)
          THEN /\ lstatus' = "Error"
               /\ UNCHANGED <<imager_state, img_goal, img_done, lmoves, failures, recovered>>
          ELSE IF ~Parsable(msg.nb_frame)
          THEN /\ imager_state' = Change("imaging")
               /\ lmoves' = 0
               /\ failures' = 0
               /\ recovered' = FALSE
               /\ UNCHANGED <<img_goal, img_done, lstatus>>
          ELSE /\ imager_state' = Change("imaging")
               /\ img_goal' = ParseInt(msg.nb_frame)
               /\ img_done' = 0
               /\ lstatus' = "Started"
               /\ lmoves' = 0
               /\ failures' = 0
               /\ recovered' = FALSE
    /\ msgq' = ReadMessage(msgq)
    /\ lpc' = "machine"
    /\ UNCHANGED <<img_error, global_metadata, export_dirs, pump_sub, lpump, lsent, lcamera>>
    /\ UNCHANGED notLegacy

\* __message_stop: unsubscribe, stop the pump, "Interrupted", state stop.
MessageStop ==
    /\ lpc = "treat"
    /\ msgq # <<>>
    /\ ~IsPumpStatus(Head(msgq))
    /\ Head(msgq).action = "stop"
    /\ pump_sub' = FALSE
    /\ lpump' = "idle"
    /\ lstatus' = "Interrupted"
    /\ imager_state' = Change("stop")
    /\ msgq' = ReadMessage(msgq)
    /\ lpc' = "machine"
    /\ UNCHANGED <<img_goal, img_done, img_error, global_metadata,
                   export_dirs, lmoves,
                   lsent, failures, recovered, lcamera>>
    /\ UNCHANGED notLegacy

\* __message_update: in the state stop the metadata are replaced by the
\* "config" field ("Configuration message error" without one); else "Busy".
MessageUpdate ==
    /\ lpc = "treat"
    /\ msgq # <<>>
    /\ ~IsPumpStatus(Head(msgq))
    /\ Head(msgq).action = "update_config"
    /\ IF imager_state = "stop"
       THEN IF Head(msgq).has_config
            THEN /\ global_metadata' = Some(Head(msgq).config)
                 /\ lstatus' = "Config updated"
            ELSE /\ lstatus' = "Configuration message error"
                 /\ UNCHANGED global_metadata
       ELSE /\ lstatus' = "Busy"
            /\ UNCHANGED global_metadata
    /\ msgq' = ReadMessage(msgq)
    /\ lpc' = "machine"
    /\ UNCHANGED <<imager_state, img_goal, img_done, img_error, export_dirs, pump_sub, lpump,
                   lmoves, lsent, failures, recovered, lcamera>>
    /\ UNCHANGED notLegacy

\* __message_settings: "Busy" outside of the state stop; "Camera settings
\* error" without the "settings" field; else the camera takes the values.
MessageSettings ==
    /\ lpc = "treat"
    /\ msgq # <<>>
    /\ ~IsPumpStatus(Head(msgq))
    /\ Head(msgq).action = "settings"
    /\ IF imager_state # "stop"
       THEN /\ lstatus' = "Busy"
            /\ UNCHANGED lcamera
       ELSE IF ~Head(msgq).has_settings
       THEN /\ lstatus' = "Camera settings error"
            /\ UNCHANGED lcamera
       ELSE /\ lcamera' = Head(msgq).value
            /\ lstatus' = "Camera settings updated"
    /\ msgq' = ReadMessage(msgq)
    /\ lpc' = "machine"
    /\ UNCHANGED <<imager_state, img_goal, img_done, img_error, global_metadata,
                   export_dirs,
                   pump_sub, lpump, lmoves, lsent, failures, recovered>>
    /\ UNCHANGED notLegacy

\* state_machine in the states waiting and stop: nothing to do.
StateIdle ==
    /\ lpc = "machine"
    /\ imager_state \in {"waiting", "stop"}
    /\ lpc' = "treat"
    /\ UNCHANGED <<imager_state, img_goal, img_done, img_error, global_metadata,
                   export_dirs,
                   msgq, pump_sub, lpump, lstatus, lmoves, lsent, failures, recovered, lcamera>>
    /\ UNCHANGED notLegacy

\* __state_imaging: how it ends for the given metadata and directories.
\*   "TypeError": no metadata were ever received ({**None, ...} raises);
\*   "no date":   object_date is missing;
\*   "KeyError":  sample_id or acq_id is missing;
\*   "exists":    the export directory exists already;
\*   "created":   the export directory is created and the pump commanded.
StateImagingOutcome(gm, ds) ==
    IF gm = Absent THEN "TypeError"
    ELSE IF Val(gm).object_date = None THEN "no date"
    ELSE IF Val(gm).sample_id = None \/ Val(gm).acq_id = None THEN "KeyError"
    ELSE IF DirExists(AcqDirPath(Val(gm)), ds) THEN "exists"
    ELSE "created"

\* __state_imaging: subscribes to status/pump, then the cases above; the two
\* exceptions are swallowed by logger.catch and leave the state imaging.
StateImaging ==
    /\ lpc = "machine"
    /\ imager_state = "imaging"
    /\ pump_sub' = TRUE
    /\ LET how == StateImagingOutcome(global_metadata, export_dirs)
       IN IF how \in {"TypeError", "KeyError"}
          THEN UNCHANGED <<imager_state, img_done, export_dirs, lpump, lstatus, lmoves>>
          ELSE IF how = "no date"
          THEN /\ lstatus' = "Configuration update error: object_date is missing!"
               /\ img_done' = 0
               /\ imager_state' = Change("stop")
               /\ UNCHANGED <<export_dirs, lpump, lmoves>>
          ELSE IF how = "exists"
          THEN /\ lstatus' = "Configuration update error: Chosen id are already in use!"
               /\ img_done' = 0
               /\ imager_state' = Change("stop")
               /\ UNCHANGED <<export_dirs, lpump, lmoves>>
          ELSE /\ export_dirs' = export_dirs \cup {AcqDirPath(Val(global_metadata))}
               /\ lpump' = "moving"
               /\ lmoves' = lmoves + 1
               /\ imager_state' = Change("waiting")
               /\ UNCHANGED <<img_done, lstatus>>
    /\ lpc' = "treat"
    /\ UNCHANGED <<img_goal, img_error, global_metadata, msgq, lsent, failures, recovered, lcamera>>
    /\ UNCHANGED notLegacy

\* __capture_error: whether this error ends the run (`if self.__error:`)
RetryForever(e) == FALSE
AbortOnError(e) == e # 0

\* self.__img_goal = None, until an image command sets it
NoGoal == -1

\* __state_capture, the capture and the append to the integrity file went
\* well: "saved", the counter, the error counter reset; then "Done" and the
\* state stop at the goal, else the next pump command and the state waiting.
\* Without a goal the comparison raises TypeError (swallowed by logger.catch)
\* and the state stays capture; the model follows this up to MaxImages + 1
\* images.
StateCaptureSaved ==
    /\ lpc = "machine"
    /\ imager_state = "capture"
    /\ img_error' = 0
    /\ failures' = 0
    /\ recovered' = (recovered \/ failures = 1)
    /\ IF img_goal = NoGoal
       THEN /\ img_done <= MaxImages
            /\ img_done' = img_done + 1
            /\ lstatus' = "Image saved"
            /\ UNCHANGED <<imager_state, pump_sub, lpump, lmoves>>
       ELSE IF img_done + 1 >= img_goal
       THEN /\ img_done' = 0
            /\ lstatus' = "Done"
            /\ imager_state' = Change("stop")
            /\ UNCHANGED <<pump_sub, lpump, lmoves>>
       ELSE /\ img_done' = img_done + 1
            /\ lstatus' = "Image saved"
            /\ pump_sub' = TRUE
            /\ lpump' = "moving"
            /\ lmoves' = lmoves + 1
            /\ imager_state' = Change("waiting")
    /\ lpc' = "treat"
    /\ UNCHANGED <<img_goal, global_metadata, export_dirs, msgq, lsent, lcamera>>
    /\ lcause' = ""
    /\ UNCHANGED notLegacyCapture

\* The exceptions __state_capture handles: TimeoutError of the capture, and
\* FileNotFoundError of integrity.append_to_integrity_file when the file the
\* capture should have written is not there.
CaptureErrors == {"TimeoutError", "FileNotFoundError"}

\* A __capture_error that would also ask the pump for the next move.
StateCaptureErrorPumps ==
    /\ lpc = "machine"
    /\ imager_state = "capture"
    /\ lcause' \in CaptureErrors
    /\ failures' = failures + 1
    /\ UNCHANGED recovered
    /\ IF AbortOnError(img_error)
       THEN /\ lstatus' = "Image WAS NOT CAPTURED! STOPPING THE PROCESS!"
            /\ img_done' = 0
            /\ img_goal' = 0
            /\ img_error' = 0
            /\ imager_state' = Change("stop")
            /\ UNCHANGED <<pump_sub, lpump, lmoves>>
       ELSE /\ img_error' = img_error + 1
            /\ lstatus' = "Image was not captured! Retrying once!"
            /\ pump_sub' = TRUE
            /\ lpump' = "moving"
            /\ lmoves' = lmoves + 1
            /\ UNCHANGED <<img_done, img_goal, imager_state>>
    /\ lpc' = "treat"
    /\ UNCHANGED <<global_metadata, export_dirs, msgq, lsent, lcamera>>
    /\ UNCHANGED notLegacyCapture

\* __state_capture, TimeoutError of the capture or FileNotFoundError of the
\* integrity file: __capture_error, which either counts the error and lets the
\* next turn of the loop try again, or gives the run up.
StateCaptureError ==
    /\ lpc = "machine"
    /\ imager_state = "capture"
    /\ lcause' \in CaptureErrors
    /\ failures' = failures + 1
    /\ UNCHANGED recovered
    /\ IF AbortOnError(img_error)
       THEN /\ lstatus' = "Image WAS NOT CAPTURED! STOPPING THE PROCESS!"
            /\ img_done' = 0
            /\ img_goal' = 0
            /\ img_error' = 0
            /\ imager_state' = Change("stop")
       ELSE /\ img_error' = img_error + 1
            /\ lstatus' = "Image was not captured! Retrying once!"
            /\ UNCHANGED <<img_done, img_goal, imager_state>>
    /\ lpc' = "treat"
    /\ UNCHANGED <<global_metadata, export_dirs, msgq, pump_sub, lpump, lmoves, lsent,
                   lcamera>>
    /\ UNCHANGED notLegacyCapture

\* The commands sent to this imager.
LegacyCommands ==
    {[action |-> "update_config", has_config |-> TRUE, config |-> c] : c \in Configs}
    \cup {[action |-> "update_config", has_config |-> FALSE, config |-> MetaEmpty]}
    \cup {ImageCommand(RequiredFields, "FORWARD", NumberTexts[n + 1]) : n \in 1..(MaxImages + 1)}
    \cup {ImageCommand(RequiredFields \ {"volume"}, "FORWARD", "1"),
          ImageCommand(RequiredFields, "FORWARD", "x")}
    \cup {[action |-> "stop"]}
    \cup {[action |-> "settings", has_settings |-> TRUE, value |-> 1],
          [action |-> "settings", has_settings |-> FALSE, value |-> 0]}

LegacySend ==
    /\ lsent < MaxCommands
    /\ Len(SelectSeq(msgq, LAMBDA x : ~IsPumpStatus(x))) < MaxPending
    /\ \E c \in LegacyCommands : msgq' = Append(msgq, c)
    /\ lsent' = lsent + 1
    /\ UNCHANGED <<lpc, imager_state, img_goal, img_done, img_error, global_metadata,
                   export_dirs, pump_sub, lpump, lstatus, lmoves, failures, recovered, lcamera>>
    /\ UNCHANGED notLegacy

TreatMessage ==
    \/ TreatNothing
    \/ TreatPumpStatus
    \/ MessageImage
    \/ MessageStop
    \/ MessageUpdate
    \/ MessageSettings

StateMachine ==
    \/ StateIdle
    \/ StateImaging
    \/ StateCaptureSaved
    \/ StateCaptureError

\* ------------------------------------------------------- specifications
PumpState0 ==
    /\ discrete_run = FALSE
    /\ done = FALSE
    /\ subscribed = TRUE
    /\ inbox = <<>>
    /\ rpc = "r_poll"
    /\ call = [t \in Callers |-> 0]
    /\ spc = "idle"
    /\ actuator = <<>>
    /\ pump_started = FALSE
    /\ stepper = [at_goal |-> TRUE, motion |-> 0]
    /\ ncalls = 0
    /\ nstops = 0
    /\ cleared = {}
    /\ fired = {}
    /\ published = {}
    /\ moves = [t \in Callers |-> 0]
    /\ answered = {}
    /\ mqtt = TRUE
    /\ receiver_close = FALSE
    /\ kpc = "idle"
    /\ took_free = FALSE
    /\ stop_event = FALSE
    /\ cam_rcv = "running"

\* ImagerProcess.run after the startup: "Ready" is published, no routine.
ImagerState0 ==
    /\ mpc = "m_loop"
    /\ mret = "gc"
    /\ routine = 0
    /\ metadata = MetaEmpty
    /\ dirs = {}
    /\ cmdq = <<>>
    /\ nsent = 0
    /\ reported = FALSE
    /\ imager_status = "Ready"
    /\ nroutines = 0
    /\ settings = [t \in Callers |-> NoSettings]
    /\ output_path = [t \in Callers |-> <<>>]
    /\ interrupted = [t \in Callers |-> FALSE]
    /\ captured = [t \in Callers |-> 0]
    /\ indices = [t \in Callers |-> <<>>]
    /\ ended = [t \in Callers |-> ""]

\* PiCamera.__init__: closed, nothing cached
CameraState0 ==
    /\ cam_open = FALSE
    /\ cached = NoValues
    /\ upd = NoValues
    /\ setting = FALSE
    /\ result = "none"
    /\ driver_calls = <<>>
    /\ camera_options = Absent

\* no call of validate() yet
ValidateState0 ==
    /\ val_self = NoValues
    /\ val_errors = <<>>
    /\ val_done = FALSE

\* Worker.__init__: no receiver thread, no MQTT client
WorkerState0 ==
    /\ w_thread = "unstarted"
    /\ w_msg = Absent
    /\ w_status = Absent
    /\ w_handled = 0

OverlayState0 ==
    /\ ov_self = NoValues
    /\ ov_updates = NoValues
    /\ ov_result = NoValues
    /\ ov_done = FALSE

\* A stream of class i nothing was written to; its consumers enter their loop.
ChannelState0(i) ==
    /\ impl = i
    /\ latest_value = 0
    /\ wlocked = FALSE
    /\ readers = {}
    /\ available = "free"
    /\ wpc = "idle"
    /\ wvalue = 0
    /\ nwrites = 0
    /\ completed = 0
    /\ cpc = [c \in Consumers |-> "loop"]
    /\ got = [c \in Consumers |-> 0]
    /\ prev = [c \in Consumers |-> 0]
    /\ gstart = [c \in Consumers |-> 0]
    /\ notified = [c \in Consumers |-> FALSE]

\* ImagerProcess.__init__ of the adafruithat tree, and nothing received yet
LegacyState0 ==
    /\ lpc = "treat"
    /\ imager_state = "stop"
    /\ img_goal = NoGoal
    /\ img_done = 0
    /\ img_error = 0
    /\ global_metadata = Absent
    /\ export_dirs = {}
    /\ msgq = <<>>
    /\ pump_sub = FALSE
    /\ lpump = "idle"
    /\ lstatus = ""
    /\ lmoves = 0
    /\ lsent = 0
    /\ failures = 0
    /\ recovered = FALSE
    /\ lcamera = 0
    /\ camq = <<>>
    /\ controls = DefaultExposure
    /\ lcause = ""

\* The stub with its caller threads idle; the imager is not running.
PumpInit ==
    /\ PumpState0
    /\ pc = [t \in Callers |-> "idle"]
    /\ ImagerState0
    /\ CameraState0
    /\ ValidateState0
    /\ WorkerState0
    /\ OverlayState0
    /\ ChannelState0("Latest")
    /\ LegacyState0

\* The imager process with no routine thread started yet.
ImagerInit ==
    /\ PumpState0
    /\ pc = [t \in Callers |-> "unstarted"]
    /\ ImagerState0
    /\ CameraState0
    /\ ValidateState0
    /\ WorkerState0
    /\ OverlayState0
    /\ ChannelState0("Latest")
    /\ LegacyState0

\* The camera, closed, before any settings command.
CameraInit ==
    /\ PumpState0
    /\ pc = [t \in Callers |-> "unstarted"]
    /\ ImagerState0
    /\ CameraState0
    /\ ValidateState0
    /\ WorkerState0
    /\ OverlayState0
    /\ ChannelState0("Latest")
    /\ LegacyState0

\* overlay about to be called on any two values.
OverlayInit ==
    /\ PumpState0
    /\ pc = [t \in Callers |-> "unstarted"]
    /\ ImagerState0
    /\ CameraState0
    /\ ValidateState0
    /\ WorkerState0
    /\ ov_self \in Updates
    /\ ov_updates \in Updates
    /\ ov_result = NoValues
    /\ ov_done = FALSE
    /\ ChannelState0("Latest")
    /\ LegacyState0

\* The preview stream, of either class, before the first frame.
ChannelInit ==
    /\ PumpState0
    /\ pc = [t \in Callers |-> "unstarted"]
    /\ ImagerState0
    /\ CameraState0
    /\ ValidateState0
    /\ WorkerState0
    /\ OverlayState0
    /\ \E i \in Impls : ChannelState0(i)
    /\ LegacyState0

\* A streams.Latest before the first frame.
LatestInit ==
    /\ PumpState0
    /\ pc = [t \in Callers |-> "unstarted"]
    /\ ImagerState0
    /\ CameraState0
    /\ ValidateState0
    /\ WorkerState0
    /\ OverlayState0
    /\ ChannelState0("Latest")
    /\ LegacyState0

RunDiscrete(t) ==
    \/ CallRunDiscrete(t)
    \/ RunDiscreteAcquire(t)
    \/ RunDiscreteClear(t)
    \/ RunDiscreteSubscribe(t)
    \/ RunDiscretePublish(t)
    \/ RunDiscreteWait(t)
    \/ ReturnRunDiscrete(t)

Receiver ==
    \/ ReceiverIgnore
    \/ ReceiverUnsubscribe
    \/ ReceiverSetDone
    \/ ReceiverCheckLocked
    \/ ReceiverRelease

PumpProcess ==
    \/ PumpTreatCommand
    \/ PumpDone
    \/ StepperArrives

\* run_discrete called from several threads, the pump answering; no stop().
NextSerial ==
    \/ \E t \in Callers : RunDiscrete(t)
    \/ Receiver
    \/ PumpProcess

SpecPumpSerial == PumpInit /\ [][NextSerial]_vars

\* The same where every thread that is inside of run_discrete, the receiver
\* thread and the pump process go on running; whether a thread calls
\* run_discrete is left open.
InsideRunDiscrete(t) ==
    \/ RunDiscreteAcquire(t)
    \/ RunDiscreteClear(t)
    \/ RunDiscreteSubscribe(t)
    \/ RunDiscretePublish(t)
    \/ RunDiscreteWait(t)
    \/ ReturnRunDiscrete(t)

FairSerial ==
    /\ \A t \in Callers : WF_vars(InsideRunDiscrete(t))
    /\ WF_vars(Receiver)
    /\ WF_vars(PumpProcess)

SpecPumpSerialFair == SpecPumpSerial /\ FairSerial

\* the same with MQTTPump.stop() called from another thread at any time.
NextPump ==
    \/ \E t \in Callers : RunDiscrete(t)
    \/ Receiver
    \/ PumpProcess
    \/ CallStop
    \/ StopSubscribe
    \/ StopPublish
    \/ ReturnStop

SpecPump == PumpInit /\ [][NextPump]_vars

\* run_discrete called from one thread and stop() from another at any time;
\* the threads and the pump process go on running, but the motor need not
\* ever reach the goal of a motion.
NextPumpStop ==
    \/ RunDiscrete(1)
    \/ Receiver
    \/ PumpProcess
    \/ CallStop
    \/ StopSubscribe
    \/ StopPublish
    \/ ReturnStop

SpecPumpStop ==
    /\ PumpInit
    /\ [][NextPumpStop]_vars
    /\ WF_vars(InsideRunDiscrete(1))
    /\ WF_vars(Receiver)
    /\ WF_vars(PumpTreatCommand \/ PumpDone)
    /\ WF_vars(StopSubscribe \/ StopPublish \/ ReturnStop)

\* run_discrete called from several threads, the pump answering, and close()
\* called from another thread at any time.
Close ==
    \/ CloseSet
    \/ CloseJoin
    \/ CloseShutdown
    \/ CloseCheckLocked
    \/ CloseRelease

NextPumpClose ==
    \/ \E t \in Callers : RunDiscrete(t)
    \/ \E t \in Callers : RunDiscreteRaise(t)
    \/ Receiver
    \/ ReceiverExit
    \/ PumpProcess
    \/ Close

SpecPumpClose == PumpInit /\ [][NextPumpClose]_vars

\* The same, where a step that can be taken is not put off forever.
SpecPumpCloseFair == SpecPumpClose /\ WF_vars(NextPumpClose)

\* the imager process: its main loop, its routine threads (which call
\* run_discrete), the stub's receiver thread, the pump process, the operator.
MainThread ==
    \/ MainCheckRoutine
    \/ MainNoMessage
    \/ MainUpdateConfig
    \/ MainStartAcquisition
    \/ MainStopCommand
    \/ MainJoin

RoutineThread(t) ==
    \/ RoutineStart(t)
    \/ RunStepTop(t)
    \/ RunDiscreteAcquire(t)
    \/ RunDiscreteClear(t)
    \/ RunDiscreteSubscribe(t)
    \/ RunDiscretePublish(t)
    \/ RunDiscreteWait(t)
    \/ RunStepCapture(t)
    \/ RoutineLog(t)
    \/ RoutineEnd(t)

NextImager ==
    \/ OperatorSend
    \/ MainThread
    \/ \E t \in Callers : RoutineThread(t)
    \/ StopSubscribe
    \/ StopPublish
    \/ Receiver
    \/ PumpProcess

SpecImager == ImagerInit /\ [][NextImager]_vars

\* acquisitions that are never stopped: the operator sends, each once the
\* command before is read, a complete configuration, then a valid image
\* command of 1..MaxImages images, and so on; every thread and process is
\* scheduled again and again.
AcquisitionCommands(n) ==
    IF n % 2 = 0
    THEN {[action |-> "update_config", has_config |-> TRUE, config |-> c] :
            c \in {d \in Configs : d.sample_id # None}}
    ELSE {ImageCommand(RequiredFields, "FORWARD", NumberTexts[k + 1]) : k \in 1..MaxImages}

AcquisitionSend ==
    /\ nsent < MaxCommands
    /\ cmdq = <<>>
    /\ \E c \in AcquisitionCommands(nsent) : cmdq' = Append(cmdq, c)
    /\ nsent' = nsent + 1
    /\ UNCHANGED <<mpc, mret, routine, metadata, dirs, reported, imager_status, nroutines,
                   imgThreadVars>>
    /\ UNCHANGED pumpVars
    /\ UNCHANGED notImager

AcquisitionMain ==
    \/ MainCheckRoutine
    \/ MainNoMessage
    \/ MainUpdateConfig
    \/ MainStartAcquisition
    \/ MainJoin
    \/ StopSubscribe
    \/ StopPublish

\* the threads and processes that stop when they have nothing to do
AcquisitionWorkers ==
    \/ \E t \in Callers : RoutineThread(t)
    \/ Receiver
    \/ PumpProcess

NextAcquisition ==
    \/ AcquisitionSend
    \/ AcquisitionMain
    \/ AcquisitionWorkers

SpecAcquisition ==
    /\ ImagerInit
    /\ [][NextAcquisition]_vars
    /\ WF_vars(AcquisitionMain)
    /\ WF_vars(AcquisitionWorkers)

\* the imager process from the start of ImagerProcess.run to its end: the
\* startup, the commands of acquisitions and stop commands, and the shutdown
\* event set at any time.
RunCommands(n) == AcquisitionCommands(n) \cup {[action |-> "stop"]}

RunSend ==
    /\ nsent < MaxCommands
    /\ cmdq = <<>>
    /\ \E c \in RunCommands(nsent) : cmdq' = Append(cmdq, c)
    /\ nsent' = nsent + 1
    /\ UNCHANGED <<mpc, mret, routine, metadata, dirs, reported, imager_status, nroutines,
                   imgThreadVars>>
    /\ UNCHANGED pumpVars
    /\ UNCHANGED notImager

\* ImagerProcess.__init__ and MQTTPump.__init__: nothing opened, no thread
RunInit ==
    /\ discrete_run = FALSE
    /\ done = FALSE
    /\ subscribed = TRUE
    /\ inbox = <<>>
    /\ rpc = "r_unstarted"
    /\ pc = [t \in Callers |-> "unstarted"]
    /\ call = [t \in Callers |-> 0]
    /\ spc = "idle"
    /\ actuator = <<>>
    /\ pump_started = FALSE
    /\ stepper = [at_goal |-> TRUE, motion |-> 0]
    /\ ncalls = 0
    /\ nstops = 0
    /\ cleared = {}
    /\ fired = {}
    /\ published = {}
    /\ moves = [t \in Callers |-> 0]
    /\ answered = {}
    /\ mqtt = FALSE
    /\ receiver_close = FALSE
    /\ kpc = "uncalled"
    /\ took_free = FALSE
    /\ stop_event = FALSE
    /\ cam_rcv = "unstarted"
    /\ mpc = "m_start"
    /\ mret = "gc"
    /\ routine = 0
    /\ metadata = MetaEmpty
    /\ dirs = {}
    /\ cmdq = <<>>
    /\ nsent = 0
    /\ reported = FALSE
    /\ imager_status = ""
    /\ nroutines = 0
    /\ settings = [t \in Callers |-> NoSettings]
    /\ output_path = [t \in Callers |-> <<>>]
    /\ interrupted = [t \in Callers |-> FALSE]
    /\ captured = [t \in Callers |-> 0]
    /\ indices = [t \in Callers |-> <<>>]
    /\ ended = [t \in Callers |-> ""]
    /\ CameraState0
    /\ ValidateState0
    /\ WorkerState0
    /\ OverlayState0
    /\ ChannelState0("Latest")
    /\ LegacyState0

RunMain ==
    \/ MainStartingUp
    \/ MainReady
    \/ MainThread
    \/ StopSubscribe
    \/ StopPublish
    \/ MainExit
    \/ MainPumpClose
    \/ Close
    \/ MainExited

RunWorkers ==
    \/ \E t \in Callers : RoutineThread(t)
    \/ \E t \in Callers : RoutineRaise(t)
    \/ Receiver
    \/ ReceiverExit
    \/ CameraReceiverExit
    \/ PumpProcess

NextImagerRun ==
    \/ RunSend
    \/ SetStopEvent
    \/ RunMain
    \/ RunWorkers

SpecImagerRun == RunInit /\ [][NextImagerRun]_vars

\* The same, where the main thread, each of the other threads and the pump
\* process go on running.
SpecImagerRunFair ==
    /\ SpecImagerRun
    /\ WF_vars(RunMain)
    /\ \A t \in Callers : WF_vars(RoutineThread(t) \/ RoutineRaise(t))
    /\ WF_vars(Receiver \/ ReceiverExit)
    /\ WF_vars(CameraReceiverExit)
    /\ WF_vars(PumpProcess)

\* the imager process with the receiver thread of its camera: acquisitions
\* that are never stopped, and settings commands at any time.
NextImagerCamera ==
    \/ AcquisitionSend
    \/ CameraSend
    \/ AcquisitionMain
    \/ AcquisitionWorkers
    \/ CameraReceive

SpecImagerCamera == ImagerInit /\ [][NextImagerCamera]_vars

\* the imager of the adafruithat tree, its pump and its operator
LegacyInit ==
    /\ PumpState0
    /\ pc = [t \in Callers |-> "unstarted"]
    /\ ImagerState0
    /\ CameraState0
    /\ ValidateState0
    /\ WorkerState0
    /\ OverlayState0
    /\ ChannelState0("Latest")
    /\ LegacyState0

NextLegacy ==
    \/ LegacySend
    \/ LegacyPumpDone
    \/ TreatMessage
    \/ StateMachine

SpecLegacy == LegacyInit /\ [][NextLegacy]_vars

\* the camera: open, close and calls of the settings setter.
NextCamera ==
    \/ CameraOpen
    \/ CameraClose
    \/ SettingsCall
    \/ SettingsApply

SpecCamera == CameraInit /\ [][NextCamera]_vars

\* The camera worker: open(), then settings commands over MQTT.
WorkerInit ==
    /\ PumpState0
    /\ pc = [t \in Callers |-> "unstarted"]
    /\ ImagerState0
    /\ CameraState0
    /\ ValidateState0
    /\ WorkerState0
    /\ OverlayState0
    /\ ChannelState0("Latest")
    /\ LegacyState0

SpecWorker == WorkerInit /\ [][NextWorker]_vars

\* SettingsValues.validate called once on any value.
ValidateInit ==
    /\ PumpState0
    /\ pc = [t \in Callers |-> "unstarted"]
    /\ ImagerState0
    /\ CameraState0
    /\ val_self \in ValidateInputs
    /\ val_errors = <<>>
    /\ val_done = FALSE
    /\ WorkerState0
    /\ OverlayState0
    /\ ChannelState0("Latest")
    /\ LegacyState0

NextValidate == ValidateCall

SpecValidate == ValidateInit /\ [][NextValidate]_vars

\* SettingsValues.overlay called once on any two values.
NextOverlay == OverlayCall

SpecOverlay == OverlayInit /\ [][NextOverlay]_vars

\* the preview stream: the encoder thread writes, the MJPEG handlers consume.
Writer ==
    \/ WriteRequest
    \/ WriteLock
    \/ WriteStore
    \/ WriteAvailable
    \/ WriteNotify

Consumer(c) ==
    \/ WaitNextEnter(c)
    \/ WaitNextWait(c)
    \/ WaitNextReturn(c)
    \/ GetLock(c)
    \/ GetRead(c)
    \/ SendFrame(c)

NextChannel ==
    \/ WriteCall
    \/ Writer
    \/ \E c \in Consumers : Consumer(c)

SpecChannel == ChannelInit /\ [][NextChannel]_vars

\* Either stream where the first of the threads, besides the loop of do_GET,
\* calls get() at any time.
NextChannelGet ==
    \/ NextChannel
    \/ GetCall(1)

SpecChannelGet == ChannelInit /\ [][NextChannelGet]_vars

\* streams.Latest, every thread that can run being eventually run.
SpecChannelFair ==
    /\ LatestInit
    /\ [][NextChannel]_vars
    /\ WF_vars(Writer)
    /\ \A c \in Consumers : WF_vars(Consumer(c))

\* Either stream; the writer runs when it can, a consumer is only sure to
\* leave get() and to reach wait() once it holds self._available: it may
\* stay as long as it likes anywhere else.
SpecChannelWriterFair ==
    /\ ChannelInit
    /\ [][NextChannel]_vars
    /\ WF_vars(Writer)
    /\ \A c \in Consumers : WF_vars(GetRead(c) \/ WaitNextWait(c))

\* ------------------------------------------------------ claims: MQTTPump
\* Move commands published and not yet answered by a Done/Interrupted status.
InFlight == published \ answered

\* The motion commanded by call m is still to come or still running.
MotionRunning(m) ==
    \/ \E i \in DOMAIN actuator : actuator[i] = [action |-> "move", id |-> m]
    \/ stepper.motion = m /\ ~stepper.at_goal

AliveRoutines == {t \in Callers : IsAlive(t)}

\* C3: whatever image, stop and update_config commands and routine
\* completions the imager handled, at most one routine thread is alive.
C3_AtMostOneRoutine == Cardinality(AliveRoutines) <= 1

\* A second routine thread runs after the first one ended.
C3_Witness ==
    \E t, u \in Callers : t # u /\ pc[t] = "dead" /\ pc[u] = "rs_top"

\* C2: run_discrete returns only after a Done or Interrupted status for the
\* motion this call commanded was received, and never while that motion is
\* still pending or running.
C2_ReturnsAfterOwnStatus ==
    \A t \in Callers :
        pc[t] = "rd_ret" => (call[t] \in answered /\ ~MotionRunning(call[t]))



\* ---------------------------------------------------------------- C4
\* C4: when the cache overlaid with the updates does not validate, the settings
\* setter rejects the updates (ValueError on an open camera), the cache is
\* exactly what it was, and no set_controls call nor option change reaches
\* picamera2.
C4_RejectedUpdateChangesNothing ==
    [][(setting /\ ~setting' /\ Validate(Overlay(cached, upd)) # <<>>)
        => /\ result' \in {"ValueError", "RuntimeError"}
           /\ cam_open => result' = "ValueError"
           /\ cached' = cached
           /\ driver_calls' = <<>>
           /\ camera_options' = camera_options]_vars

\* a rejected update on an open camera whose cache holds accepted values
C4_Witness ==
    /\ cam_open
    /\ result = "ValueError"
    /\ ~setting
    /\ Cardinality(Present(cached)) >= 2

\* ---------------------------------------------------------------- C5
\* C5: overlay(cached, update) has, in every field, update's value when that
\* value is not None and cached's value otherwise.
C5_OverlayFieldwise ==
    ov_done =>
        \A f \in Fields :
            ov_result[f] = IF ov_updates[f] # Absent THEN ov_updates[f] ELSE ov_self[f]

\* overlay was called with a field both operands set differently and a field
\* only the cached value sets
C5_Witness ==
    /\ ov_done
    /\ \E f, g \in Fields :
        /\ ov_updates[f] # Absent /\ ov_self[f] # Absent /\ ov_updates[f] # ov_self[f]
        /\ ov_updates[g] = Absent /\ ov_self[g] # Absent

\* ---------------------------------------------------------------- C6
\* The ranges the fields of SettingsValues are documented to lie in.
InRange(x, lo, hi) == x = Absent \/ (lo <= Val(x) /\ Val(x) <= hi)

WithinLimits(sv) ==
    \/ sv.exposure_time = Absent
    \/ /\ sv.frame_duration_limits = Absent
       /\ Val(sv.exposure_time) >= 0
    \/ /\ sv.frame_duration_limits # Absent
       /\ Val(sv.exposure_time) >= Val(sv.frame_duration_limits)[1]
       /\ Val(sv.exposure_time) <= Val(sv.frame_duration_limits)[2]

WithinDocumentedRanges(sv) ==
    /\ WithinLimits(sv)
    /\ InRange(sv.image_gain, 0, 16)
    /\ InRange(sv.brightness, -1, 1)
    /\ InRange(sv.contrast, 0, 32)
    /\ sv.white_balance_gains # Absent =>
        /\ InRange(Some(Val(sv.white_balance_gains).red), 0, 32)
        /\ InRange(Some(Val(sv.white_balance_gains).blue), 0, 32)
    /\ InRange(sv.sharpness, 0, 16)
    /\ InRange(sv.jpeg_quality, 0, 95)

\* C6: the cached settings always validate: every value the cache holds is in
\* its documented range, whatever updates were accepted or rejected.
C6_CacheValidates ==
    /\ Validate(cached) = <<>>
    /\ WithinDocumentedRanges(cached)

\* an accepted update left an exposure time and a JPEG quality in the cache
C6_Witness ==
    /\ cam_open
    /\ result = "ok"
    /\ cached.exposure_time # Absent
    /\ cached.jpeg_quality # Absent

\* ---------------------------------------------------------------- C7
\* C7: a get() that begins after write number k has returned returns the value
\* of write k or of a later write, never an older one: once write(v1) and
\* write(v2) have completed, get() returns v2.
C7_LatestWins ==
    \A c \in Consumers : cpc[c] # "g_read" => got[c] >= gstart[c]

\* a consumer that had obtained nothing got the second value after both
\* writes had returned
C7_Witness ==
    \E c \in Consumers :
        /\ cpc[c] = "send"
        /\ prev[c] = 0
        /\ gstart[c] = 2
        /\ got[c] = 2

\* ---------------------------------------------------------------- C8
\* C8: with one writer, what a consumer's get() returns is never older than
\* what its previous get() returned.
C8_NonDecreasing ==
    \A c \in Consumers : got[c] >= prev[c]

\* two consumers each obtained a newer value after an older one
C8_Witness ==
    \E c, d \in Consumers :
        /\ c # d
        /\ prev[c] >= 1 /\ got[c] > prev[c]
        /\ prev[d] >= 1 /\ got[d] > prev[d]

\* ---------------------------------------------------------------- C9
\* C9: every cycle of wait_next() then get() delivers a write strictly newer
\* than the one the consumer's previous cycle delivered.
C9_EachCycleStrictlyNewer ==
    \A c \in Consumers : cpc[c] = "send" => got[c] > prev[c]

\* ---------------------------------------------------------------- C10
\* C10: wait_next() returns only after a write() notified since the call began
\* waiting, and every thread blocked in wait_next() when write() notifies
\* returns from wait_next().
C10_WakesAllAndOnlyOnWrite ==
    /\ [](\A c \in Consumers : cpc[c] = "get" => notified[c])
    /\ \A c \in Consumers :
        (wpc = "w_notify" /\ cpc[c] = "wn_blocked") ~> (cpc[c] = "get")

\* write() is about to notify while both consumers are blocked in wait_next()
C10_Witness ==
    /\ wpc = "w_notify"
    /\ \A c \in Consumers : cpc[c] = "wn_blocked"

\* ---------------------------------------------------------------- C11
\* C11: every write() that was called returns, however the consumers behave
\* outside get(); and write() can always take its next step unless a consumer
\* is inside get() or between taking self._available and waiting on it.
C11_WriterNeverWaitsForConsumption ==
    /\ [](((wpc # "idle") /\ (\A c \in Consumers : cpc[c] \notin {"g_read", "wn_wait"}))
            => ENABLED Writer)
    /\ (wpc # "idle") ~> (wpc = "idle")

\* write() has stored a value nobody has read yet while every consumer is
\* blocked in wait_next()
C11_Witness ==
    /\ wpc = "w_available"
    /\ nwrites = 2
    /\ \A c \in Consumers : cpc[c] = "wn_blocked" /\ got[c] = 0


\* C12: an acquisition of N >= 1 images that is never stopped and whose pump
\* runs and captures all succeed captures exactly N images, of indices
\* 0..N-1 in this order, after N pump commands, and then ends with
\* interrupted = false and the status "Done"; no run ever issues more than N
\* pump commands or captures.
AllIndices(n) == [i \in 1..n |-> i - 1]
CaptureAttempt == lpc = "machine" /\ imager_state = "capture"

\* C13: when a capture failed once and the retry of the same image succeeds,
\* the error counter is reset to 0 and the image is counted; when the retry
\* fails too, the run is given up (state stop) without counting the image,
\* and no further capture is tried.
C13_RetryOnceThenAbort ==
    /\ [][(CaptureAttempt /\ failures = 1) =>
            /\ failures' = 0 =>
                  /\ img_error' = 0
                  /\ \/ img_done' = img_done + 1
                     \/ lstatus' = "Done" /\ imager_state' = "stop"
            /\ failures' = 2 =>
                  /\ imager_state' = "stop"
                  /\ img_done' <= img_done
                  /\ lstatus' = "Image WAS NOT CAPTURED! STOPPING THE PROCESS!"]_vars
    /\ [](failures = 2 => ~CaptureAttempt)

\* the first image needed a second try, the second failed twice
C13_Witness ==
    /\ recovered
    /\ failures = 2
    /\ imager_state = "stop"
    /\ img_goal = 0


\* ------------------------------------- claims: ImagerProcess (pscopehat)
\* the main thread finishes the handling of a stop command
StopHandled == mpc = "m_stop" /\ mret = "cmd" /\ mpc' = "m_loop"

Collision ==
    /\ mpc = "m_msg"
    /\ cmdq # <<>>
    /\ Head(cmdq).action = "image"
    /\ ParseAcquisitionSettings(Head(cmdq)).ok
    /\ None \notin {metadata.object_date, metadata.sample_id, metadata.acq_id}
    /\ AcqDirPath(metadata) \in dirs

\* C15: handling an image command whose output directory exists already
\* starts no routine and publishes no command on actuator/pump, and publishes
\* the status of the collision on status/imager.
C15_CollisionStartsNothing ==
    [][(Collision /\ mpc' # mpc) =>
          /\ imager_status' = "Configuration update error"
          /\ routine' = routine
          /\ nroutines' = nroutines
          /\ pc' = pc
          /\ dirs' = dirs
          /\ actuator' = actuator
          /\ moves' = moves]_vars

\* the directory of a finished acquisition is asked for again: the status is
\* published and no routine exists
C15_Witness ==
    /\ mpc = "m_loop"
    /\ cmdq # <<>>
    /\ Head(cmdq).action = "image"
    /\ AcqDirPath(metadata) \in dirs
    /\ imager_status = "Configuration update error"
    /\ routine = 0
    /\ nroutines = 1


\* C16: a turn of the main loop that handles a command on the imager topic
\* (and neither starts a routine nor waits for one to stop) publishes at least
\* one status on status/imager.
C16_EveryCommandReported ==
    [][(mpc = "m_msg" /\ cmdq # <<>> /\ mpc' = "m_loop" /\ nroutines' = nroutines)
          => reported']_vars


\* the main thread handles the update_config command at the head of cmdq
HandlesUpdateConfig ==
    /\ mpc = "m_msg"
    /\ cmdq # <<>>
    /\ Head(cmdq).action = "update_config"
    /\ mpc' = "m_loop"

\* C17: with a routine thread alive an update_config command gets "Busy" and
\* leaves the metadata as they are; with none alive and a config field in the
\* command, the metadata become that field and "Config updated" is published.
C17_UpdateConfigBusyOrStored ==
    [][HandlesUpdateConfig =>
          /\ AliveRoutines # {} =>
                /\ imager_status' = "Busy"
                /\ metadata' = metadata
          /\ (AliveRoutines = {} /\ Head(cmdq).has_config) =>
                /\ metadata' = Head(cmdq).config
                /\ imager_status' = "Config updated"]_vars

\* "Busy" was the answer to an update_config sent during an acquisition that
\* earlier metadata had configured
C17_Witness ==
    /\ imager_status = "Busy"
    /\ AliveRoutines # {}
    /\ metadata.acq_id # None
    /\ reported


\* C18: with a routine thread alive, the handling of a settings command
\* publishes "Busy" and leaves the controls of the camera as they are.
C18_SettingsBusy ==
    [][(camq # <<>> /\ camq' = ReadMessage(camq) /\ AliveRoutines # {})
          => (imager_status' = "Busy" /\ controls' = controls)]_vars


\* an image command without one of nb_frame, sleep, volume, pump_direction,
\* with a direction other than FORWARD or BACKWARD, or with an nb_frame that
\* is no number
Malformed(msg) ==
    \/ \E f \in {"nb_frame", "sleep", "volume", "pump_direction"} : f \notin msg.has
    \/ msg.pump_direction \notin {"FORWARD", "BACKWARD"}
    \/ \A n \in 0..(Len(NumberTexts) - 1) : msg.nb_frame # NumberTexts[n + 1]

\* C19: the handling of a malformed image command publishes an error status
\* and changes nothing else: no routine, no directory, no pump command.
C19_MalformedImageRejected ==
    [][(mpc = "m_msg" /\ cmdq # <<>> /\ Head(cmdq).action = "image"
          /\ Malformed(Head(cmdq)) /\ mpc' = "m_loop")
          => /\ reported'
             /\ imager_status' = "Error"
             /\ routine' = routine
             /\ nroutines' = nroutines
             /\ pc' = pc
             /\ dirs' = dirs
             /\ metadata' = metadata
             /\ actuator' = actuator
             /\ moves' = moves]_vars

\* the lock is held whenever one of the two threads that release it does so
NoDoubleRelease == rpc # "r_error" /\ kpc # "k_error"

\* C20: once MQTTPump.close() has returned the single-flight lock is not held,
\* and neither the receiver nor close() ever releases the lock while it is free,
\* in any interleaving of status messages, run_discrete and close.
C20_CloseLeavesLockFree ==
    /\ kpc = "closed" => ~discrete_run
    /\ NoDoubleRelease


\* ------------------------------------------- claims: one acquisition run
\* the routine thread t is back from run_discrete, about to sleep and capture
AboutToCapture(t) == settings[t] # NoSettings /\ pc[t] = "rd_ret"

\* C21: in a run, each capture comes after one pump move commanded since the
\* capture before (or the start), which was answered and is over when the
\* capture is made: no capture while a motion the run commanded is pending or
\* running, and never a second move before the capture of the current image.
C21_PumpThenCapture ==
    \A t \in Callers :
        /\ moves[t] \in {captured[t], captured[t] + 1}
        /\ AboutToCapture(t) =>
              /\ moves[t] = captured[t] + 1
              /\ call[t] \in answered
              /\ ~MotionRunning(call[t])


\* ------------------------------------------ claims: SettingsValues.validate
\* the list of errors names the field
Reports(errors, name) == \E i \in DOMAIN errors : errors[i] = name

\* the exposure time is set and is outside of the limits that are set, or
\* negative when no limits are set
ExposureViolation(sv) ==
    /\ sv.exposure_time # Absent
    /\ \/ /\ sv.frame_duration_limits # Absent
          /\ \/ Val(sv.exposure_time) < Val(sv.frame_duration_limits)[1]
             \/ Val(sv.exposure_time) > Val(sv.frame_duration_limits)[2]
       \/ /\ sv.frame_duration_limits = Absent
          /\ Val(sv.exposure_time) < 0

\* the field is set and outside of [lo, hi]
Outside(x, lo, hi) == x # Absent /\ (Val(x) < lo \/ Val(x) > hi)

\* C22: validate() reports an exposure-time error exactly when the exposure
\* time is set and lies outside of the frame duration limits that are set, or is
\* negative when none are set; every other field gives an error exactly when
\* it is set and outside of its range; a value with no field set gives none.
C22_ValidateExactly ==
    val_done =>
        /\ Reports(val_errors, "Exposure time out of range") <=> ExposureViolation(val_self)
        /\ Reports(val_errors, "Image gain out of range") <=> Outside(val_self.image_gain, 0, 16)
        /\ Reports(val_errors, "Brightness out of range") <=> Outside(val_self.brightness, -1, 1)
        /\ Reports(val_errors, "Contrast out of range") <=> Outside(val_self.contrast, 0, 32)
        /\ Reports(val_errors, "Red white-balance gain out of range")
              <=> /\ val_self.white_balance_gains # Absent
                  /\ Outside(Some(Val(val_self.white_balance_gains).red), 0, 32)
        /\ Reports(val_errors, "Blue white-balance gain out of range")
              <=> /\ val_self.white_balance_gains # Absent
                  /\ Outside(Some(Val(val_self.white_balance_gains).blue), 0, 32)
        /\ Reports(val_errors, "Sharpness out of range") <=> Outside(val_self.sharpness, 0, 16)
        /\ Reports(val_errors, "JPEG quality out of range")
              <=> Outside(val_self.jpeg_quality, 0, 95)
        /\ Len(val_errors) <= Cardinality(Present(val_self)) + 1
        /\ Present(val_self) = {} => val_errors = <<>>
        /\ Present(val_self) \subseteq {"auto_exposure", "auto_white_balance",
                                       "frame_duration_limits"} => val_errors = <<>>

\* validate() found a negative exposure time with no limits set, and another
\* field out of its range
C22_Witness ==
    /\ val_done
    /\ val_self.frame_duration_limits = Absent
    /\ val_self.exposure_time = Some(-1)
    /\ Len(val_errors) = 2


\* ------------------------------------------------ claims: the camera worker
\* the receiver thread holds a settings command whose converted update is
\* valid on its own and invalid once merged with the cached settings
MergeInvalidCommand ==
    /\ w_thread = "running"
    /\ w_msg # Absent
    /\ Val(w_msg).action = "settings"
    /\ Val(w_msg).settings # Absent
    /\ LET conv == ConvertSettings(Val(Val(w_msg).settings), cached.white_balance_gains)
       IN /\ conv.error = ""
          /\ HasValues(conv.value)
          /\ Validate(conv.value) = <<>>
          /\ Validate(Overlay(cached, conv.value)) # <<>>

\* C23: handling a settings command whose update is valid alone and invalid
\* once merged leaves the cached settings as they were, publishes the first
\* violation as an error status, and leaves the receiver thread running with
\* the message read.
C23_MergeInvalidReported ==
    [][(MergeInvalidCommand /\ w_handled' # w_handled) =>
          /\ cached' = cached
          /\ w_status' = Some(<<"Error: ", ValidateSettings(Overlay(cached,
                 ConvertSettings(Val(Val(w_msg).settings), cached.white_balance_gains).value))>>)
          /\ w_thread' = "running"
          /\ w_msg' = Absent]_vars


\* ------------------------------------- claims: starting an image acquisition
\* the main thread holds an image command with valid acquisition settings
\* while the metadata lacks a field of the output path
ImageCommandWithoutPathField ==
    /\ mpc = "m_msg"
    /\ cmdq # <<>>
    /\ Head(cmdq).action = "image"
    /\ ParseAcquisitionSettings(Head(cmdq)).ok
    /\ \/ metadata.object_date = None
       \/ metadata.sample_id = None
       \/ metadata.acq_id = None

\* C24: handling an image command while the metadata lacks object_date,
\* sample_id or acq_id creates no directory, starts no routine, publishes no
\* pump command and publishes a configuration-error status.
C24_MissingMetadataAborts ==
    [][(ImageCommandWithoutPathField /\ mpc' = "m_loop") =>
          /\ dirs' = dirs
          /\ routine' = routine
          /\ nroutines' = nroutines
          /\ published' = published
          /\ reported'
          /\ imager_status' = "Configuration update error"]_vars

\* the routine thread t was started by _start_acquisition
Started(t) == settings[t].ok /\ pc[t] # "unstarted"

\* C25: every acquisition routine that was started has settings with
\* total_images >= 1 (of the bounds of the settings, total_images is the one
\* the routine's state carries; sleep, volume and pump_flowrate go through
\* float() alone).
C25_StartedRoutineBounds ==
    \A t \in Callers : Started(t) => settings[t].total_images >= 1


\* -------------------------------------------- claims: shutdown of the pump client
\* C26: a thread blocked in run_discrete when close() has returned leaves
\* run_discrete afterwards.
C26_CloseUnblocksCaller ==
    \A t \in Callers :
        (kpc = "closed" /\ pc[t] = "rd_blocked") ~> (pc[t] # "rd_blocked")


\* ------------------------------------ claims: run_discrete with a pump that answers
\* C27: with a pump that answers every move and threads that go on running,
\* every call of run_discrete returns, whatever the number of threads calling it.
C27_EveryCallReturns ==
    \A t \in Callers : (pc[t] # "idle") ~> (pc[t] = "idle")

\* a thread is back from its wait, its move answered, while another thread
\* queues for the lock
C27_Witness ==
    \E t, u \in Callers :
        /\ pc[t] = "rd_ret"
        /\ pc[u] = "rd_acquire"
        /\ call[t] \in answered
        /\ ncalls = MaxMoves - 1


\* -------------------------------- claims: a status with no run_discrete in flight
\* the threads that cleared the done signal and have not returned from wait()
Waiting == {t \in Callers : pc[t] \in {"rd_subscribe", "rd_publish", "rd_wait", "rd_blocked"}}

\* C28: the handling of a Done or Interrupted status that the receiver read
\* while the single-flight lock was free releases no lock, raises no error,
\* and sets the done signal for no thread that called run_discrete since: such
\* a thread waits for a later status.
C28_StaleStatusHarmless ==
    [][(took_free /\ rpc' # rpc) =>
          /\ discrete_run' = discrete_run
          /\ rpc' # "r_error"
          /\ rpc = "r_read" => Waiting = {}]_vars


\* ------------------------------------------- claims: statuses that are ignored
\* the receiver is at the top of its loop with a status that is neither Done
\* nor Interrupted
OtherStatusInHand ==
    /\ rpc = "r_poll"
    /\ inbox # <<>>
    /\ Head(inbox).status \notin {"Done", "Interrupted"}

\* C29: what the receiver does with a status that is neither Done nor
\* Interrupted is to read it and nothing else: the done signal, the
\* single-flight lock, the subscription and every thread inside run_discrete
\* are as before, a blocked thread still blocked.
C29_OtherStatusIgnored ==
    [][(OtherStatusInHand /\ (rpc' # rpc \/ inbox' = Tail(inbox))) =>
          /\ inbox' = Tail(inbox)
          /\ rpc' = "r_poll"
          /\ done' = done
          /\ discrete_run' = discrete_run
          /\ subscribed' = subscribed
          /\ pc' = pc]_vars

\* "Started" was delivered and read while a thread is blocked in wait(): the
\* motion of its call is running, the thread is still blocked
C29_Witness ==
    \E t \in Callers :
        /\ pc[t] = "rd_blocked"
        /\ stepper.motion = call[t]
        /\ ~stepper.at_goal
        /\ inbox = <<>>
        /\ rpc = "r_poll"
        /\ subscribed
        /\ discrete_run
        /\ ~done


\* --------------------------------------------- claims: an accepted settings update
\* the calls are one set_controls call whose controls are those of sv: a
\* control for each field of sv that is set, with its value, and no other
OneSetControlsOf(calls, sv) ==
    /\ Len(calls) = 1
    /\ calls[1].call = "set_controls"
    /\ DOMAIN calls[1].controls = {k \in DOMAIN ControlFields : sv[ControlFields[k]] # Absent}
    /\ \A k \in DOMAIN calls[1].controls :
          calls[1].controls[k] = Val(sv[ControlFields[k]])

\* C30: a call of the setter that accepts the update makes one set_controls
\* call with the controls of the cache overlaid with the update, absent
\* fields dropped, and leaves that merged value in the cache; and whenever the
\* cache of an open camera changes, the new value is what set_controls got.
C30_AcceptedUpdatePushedWhole ==
    [][/\ (setting /\ ~setting' /\ result' = "ok") =>
              /\ OneSetControlsOf(driver_calls', Overlay(cached, upd))
              /\ cached' = Overlay(cached, upd)
       /\ (cam_open /\ cam_open' /\ cached' # cached) =>
              OneSetControlsOf(driver_calls', cached')]_vars

\* an accepted update of at most MaxPresent fields gave the driver more
\* controls than it sets: those of the fields the cache held before
C30_Witness ==
    /\ cam_open
    /\ ~setting
    /\ result = "ok"
    /\ Len(driver_calls) = 1
    /\ Cardinality(DOMAIN driver_calls[1].controls) > MaxPresent

\* C31: a turn of the legacy state machine in state capture that finds the
\* captured file missing when it appends it to the integrity log
\* (FileNotFoundError) aborts the run: it publishes the "WAS NOT CAPTURED!
\* STOPPING" status and leaves the machine in state stop, so that no further
\* capture or pump move follows.
C31_MissingFileAborts ==
    [][(CaptureAttempt /\ lpc' = "treat" /\ lcause' = "FileNotFoundError")
        => /\ lstatus' = "Image WAS NOT CAPTURED! STOPPING THE PROCESS!"
           /\ imager_state' = "stop"]_vars

\* C32: the legacy imager publishes a pump move only when a run starts (state
\* imaging) or in the turn of state capture whose capture succeeded and whose
\* image was saved; a turn whose capture failed publishes none, so that no
\* pump move lies between a first failure and its retry.
C32_PumpOnlyAfterSuccess ==
    [][lmoves' > lmoves
        => \/ imager_state = "imaging"
           \/ CaptureAttempt /\ lcause' = "" /\ lstatus' = "Image saved"]_vars

\* a first capture failed, the retry saved the image, and the pump was then
\* asked for the next move
C32_Witness ==
    recovered /\ imager_state = "waiting" /\ lpump = "moving" /\ lmoves >= 2

\* ------------------------------- claims: ImagerProcess.run, start to end
\* the statuses that end a run, as recorded for its thread
TerminalStatuses == {"Done", "Interrupted", "Failed"}
\* where the main thread is before its loop
BeforeLoop == {"m_start", "m_open"}
\* where the main thread is inside of its loop
InLoop == {"m_loop", "m_msg", "m_stop"}

\* C33: the statuses of the imager are ordered: nothing is published before
\* "Starting up"; "Ready" is published when the startup ends, and no command
\* is read and no routine started before that; a routine thread publishes
\* "Started" before it captures or reports anything; a routine thread that
\* has ended has published exactly one of Done, Interrupted and WAS NOT
\* CAPTURED, as its last status; and the step that takes the main thread out
\* of its loop publishes "Dead".
C33_StatusOrder ==
    /\ [](mpc = "m_start" => imager_status = "")
    /\ [][mpc = "m_start" /\ mpc' # "m_start" => imager_status' = "Starting up"]_vars
    /\ [](mpc \in BeforeLoop => Len(cmdq) = nsent /\ nroutines = 0)
    /\ [][mpc = "m_open" /\ mpc' # "m_open" => imager_status' = "Ready"]_vars
    /\ [](\A t \in Callers :
            /\ pc[t] \in {"unstarted", "rt_start"} => captured[t] = 0 /\ ended[t] = ""
            /\ ended[t] # "" => pc[t] = "dead"
            /\ pc[t] = "dead" => ended[t] \in TerminalStatuses)
    /\ [][(mpc \in InLoop /\ ~(mpc' \in InLoop)) => (imager_status' = "Dead")]_vars

\* ------------------------------------------- claims: streams.Latest, locks
\* the step of write() at hand executes "self._latest_value = value": the
\* store under the write lock, or the one under self._available in a class
\* whose write() stores there
StoresValue ==
    /\ wpc' # wpc
    /\ \/ wpc = "w_store"
       \/ wpc = "w_available" /\ SecondStore(impl, 0, 1) = 1

\* C34: every step of write() that stores to the current value of a
\* streams.Latest is taken with the read/write lock held in write mode and
\* with no get() inside the read lock; the lock of the condition guards no
\* store.
C34_StoredUnderWriteLock ==
    [][(impl = "Latest" /\ StoresValue) => (wlocked /\ readers = {})]_vars

\* ------------------------------------------------- claims: Latest.get
\* some write() has executed its store under the write lock
Stored == completed > 0 \/ wpc \in {"w_available", "w_notify"}
\* consumer c takes a step of get()
InGet(c) == cpc[c] \in {"get", "get_now", "g_read", "g_read_now"} /\ cpc'[c] # cpc[c]
\* get() returns to consumer c
GetReturns(c) == cpc[c] \in {"g_read", "g_read_now"} /\ cpc'[c] # cpc[c]

\* C35: get() returns none exactly when no write() has stored a value yet;
\* a get() that follows a wait_next() that returned never returns none; and
\* the steps of get() leave the value, the write lock, the condition and the
\* other threads as they are, the caller being out of the read lock when
\* get() returns.
C35_GetNoneIffNothingWritten ==
    [][\A c \in Consumers :
          /\ GetReturns(c) =>
                /\ (got'[c] = 0) <=> ~Stored
                /\ cpc[c] = "g_read" => got'[c] # 0
                /\ readers' = readers \ {c}
          /\ InGet(c) =>
                /\ UNCHANGED <<latest_value, wlocked, available, wpc, notified>>
                /\ \A d \in Consumers \ {c} : cpc'[d] = cpc[d]]_vars

\* a get() called before the first store is about to return none: the thread
\* holds the read lock and the first write() waits for the write lock
C35_Witness ==
    \E c \in Consumers :
        /\ cpc[c] = "g_read_now"
        /\ c \in readers
        /\ latest_value = 0
        /\ ~Stored
        /\ wpc = "w_wlock"

\* ------------------------------------- claims: PiCamera.settings, no-op
\* the setter returns or raises in the step at hand
SetterEnds == setting /\ ~setting'

\* C36: has_values() is false exactly when every field of the update is None;
\* the setter called with such an update returns without a change of the
\* cache or of the options, without a call of the driver and without an
\* exception, whether the camera is open or not; called with an update that
\* has a value while the camera is closed it raises RuntimeError, with the
\* cache unchanged and no call of the driver.
C36_EmptyUpdateIsNoOp ==
    [][SetterEnds =>
          /\ ~HasValues(upd) <=> (\A f \in Fields : upd[f] = Absent)
          /\ (\A f \in Fields : upd[f] = Absent) =>
                /\ result' = "noop"
                /\ cached' = cached
                /\ camera_options' = camera_options
                /\ driver_calls' = <<>>
          /\ ((\E f \in Fields : upd[f] # Absent) /\ ~cam_open) =>
                /\ result' = "RuntimeError"
                /\ cached' = cached
                /\ driver_calls' = <<>>]_vars

\* the setter returned from an update without values on a camera that is closed
C36_Witness ==
    /\ ~cam_open
    /\ ~setting
    /\ result = "noop"

\* ------------------------------------------------ claims: MQTTPump.stop
\* C37: every step of stop() leaves the single-flight lock, the done signal
\* and the threads inside of run_discrete as they are; its publish step puts
\* one stop command on actuator/pump; each of its steps can be taken whatever
\* the other threads do, so stop() returns without waiting; and a
\* run_discrete that is blocked when stop() is called returns.
C37_StopDoesNotWait ==
    /\ [][spc' # spc => UNCHANGED <<discrete_run, done, pc>>]_vars
    /\ [][(spc = "st_publish" /\ spc' # spc)
            => actuator' = Append(actuator, [action |-> "stop", id |-> 0])]_vars
    /\ [](/\ spc = "st_subscribe" => ENABLED StopSubscribe
          /\ spc = "st_publish" => ENABLED StopPublish
          /\ spc = "st_ret" => ENABLED ReturnStop)
    /\ \A t \in Callers :
          (pc[t] = "rd_blocked" /\ spc = "st_subscribe") ~> (pc[t] # "rd_blocked")

\* stop() has published its command and is about to return while a
\* run_discrete is still blocked on the done signal
C37_Witness ==
    \E t \in Callers :
        /\ pc[t] = "rd_blocked"
        /\ spc = "st_ret"
        /\ discrete_run
        /\ ~done

\* ------------------------------------------------ claims: PumpProcess
\* the statuses Done and Interrupted received for the motion of call m and
\* not yet read by the receiver
TerminalFor(m) ==
    {i \in DOMAIN inbox : inbox[i].of = m /\ inbox[i].status \in Terminal}

\* C38: the pump process publishes at most one of Done and Interrupted for
\* the motion of one move command: a motion that a stop command ended with
\* Interrupted is not reported Done as well.
C38_OneTerminalStatusPerMove ==
    \A m \in 1..MaxMoves : Cardinality(TerminalFor(m)) <= 1

\* ---------------------- claims: ImagerProcess (adafruithat), image command
\* the loop is about to treat an image command while a run is active: the
\* machine waits for the pump or is about to capture
ImageCommandDuringRun ==
    /\ lpc = "treat"
    /\ msgq # <<>>
    /\ ~IsPumpStatus(Head(msgq))
    /\ Head(msgq).action = "image"
    /\ imager_state \in {"waiting", "capture"}

\* C39: the treatment of an image command that arrives while a run is
\* active leaves the run as it is: the count of images done, the goal and
\* the directories of the run are unchanged.
C39_ImageCommandLeavesRun ==
    [][(ImageCommandDuringRun /\ lpc' # lpc)
        => UNCHANGED <<img_done, img_goal, export_dirs>>]_vars

\* ------------------------------------- claims: ImagerProcess.run, shutdown
\* every thread the imager process started has ended
ThreadsEnded ==
    /\ AliveRoutines = {}
    /\ ReceiverEnded
    /\ cam_rcv = "dead"

\* C40: once the stop event is set while a routine thread is alive, the
\* routine thread, the receiver thread of the pump stub and the receiver
\* thread of the camera all end.
C40_ShutdownEndsThreads ==
    (stop_event /\ AliveRoutines # {}) ~> ThreadsEnded
====
